---- MODULE Spec2Model ----
(***************************************************************************)
(* Soft-deletion plugin for an authentication framework.                   *)
(*                                                                         *)
(* The plugin of src/unnamed/part_000 (lines 206-574) is modelled as a     *)
(* state machine over the storage adapter's tables (user, account,         *)
(* session, blockedIdentifier).  Every request runs in a slot and advances *)
(* one storage-adapter call at a time: the code between two awaits of the  *)
(* adapter is one atomic step.  Time is counted in days.                   *)
(*                                                                         *)
(* Strings are sequences of symbols so that toLowerCase and trim are       *)
(* computed, JavaScript values are tagged records [t, v].                  *)
(***************************************************************************)
EXTENDS Integers, Sequences, FiniteSets, TLC

\* ------------------------------------------------------------------ bounds
\* The clock stops at MaxTime days.
MaxTime == 3
\* The host creates at most MaxSessions sessions per user.
MaxSessions == 1
\* A delete request of src/index.ts starts while the blockedIdentifier table
\* holds fewer than MaxBlockedRows rows.
MaxBlockedRows == 2

\* ------------------------------------------------------- program constants
\* The retentionDays option, in days (options?.retentionDays ?? 30).
RetentionDays == 2
\* A null Date column (deletedAt: null, expiresAt: null).
NullDate == -1
\* status: payload?.status || 429
DefaultRateLimitStatus == 429

\* options?.retentionDays ?? 30, the option being a number or NoOption when
\* it is not configured
DefaultRetentionDays == 30
NoOption == -1
retentionDaysOf(option) == IF option = NoOption THEN DefaultRetentionDays ELSE option

\* ------------------------------------------------------------- JS strings
Lower(c) == IF c = "A" THEN "a" ELSE IF c = "B" THEN "b" ELSE c

\* String.prototype.toLowerCase
ToLowerCase(s) == [i \in 1..Len(s) |-> Lower(s[i])]

RECURSIVE TrimStart(_)
TrimStart(s) == IF s # <<>> /\ Head(s) = " " THEN TrimStart(Tail(s)) ELSE s

RECURSIVE TrimEnd(_)
TrimEnd(s) ==
    IF s # <<>> /\ s[Len(s)] = " " THEN TrimEnd(SubSeq(s, 1, Len(s) - 1)) ELSE s

\* String.prototype.trim
Trim(s) == TrimEnd(TrimStart(s))

\* --------------------------------------------------------------- JS values
Undefined == [t |-> "undefined", v |-> <<>>]
Null == [t |-> "null", v |-> <<>>]
Num == [t |-> "number", v |-> <<"1">>]
Str(s) == [t |-> "string", v |-> s]

\* JavaScript truthiness of a value that is a string, null or undefined
\* (a number stands for a non-zero one).
Truthy(x) == IF x.t = "string" THEN x.v # <<>> ELSE x.t = "number"

\* ------------------------------------------------------------ the universe
AliceEmail == <<"a", "@", "x.io">>
AliceUpper == <<"A", "@", "x.io">>
AlicePadded == <<" ", "a", "@", "x.io">>
BobEmail == <<"b", "@", "x.io">>
CarolEmail == <<"c", "@", "x.io">>

GoodPassword == <<"p">>
WrongPassword == <<"q">>
BlankPassword == <<" ">>

UserIds == {"u1", "u2"}

\* z.string().email(): a local part, an @ and a domain, no white space.
IsEmailSyntax(s) ==
    /\ Len(s) = 3
    /\ s[1] \in {"a", "A", "b", "B", "c"}
    /\ s[2] = "@"
    /\ s[3] = "x.io"

\* The host's password hasher and verifier (context.password).
HashPassword(p) == <<"hashed_">> \o p
PasswordVerify(hash, password) == hash = HashPassword(password)

\* hashIdentifier of ./utils: SHA-256 over the normalized identifier.
hashIdentifier(email) == <<"sha256">> \o Trim(ToLowerCase(email))


\* ------------------------------------------------------------------- state
VARIABLES
    now,                  \* the clock (new Date()), in days
    blockReRegistration,  \* the plugin option
    secondaryStorage,     \* the plugin option: is a secondary storage configured
    secondary,            \* the secondary storage: a set of keys with their expiry
    users,                \* table user: id -> row
    accounts,             \* table account: a set of rows
    sessions,             \* table session: userId -> number of session rows
    blocked,              \* table blockedIdentifier: the rows in insertion order
    req                   \* the requests in flight: slot -> handler state

vars ==
    <<now, blockReRegistration, secondaryStorage, secondary, users, accounts, sessions, blocked, req>>

Slots == {1, 2}

\* ----------------------------------------------------------------- records
NoUser == [id |-> "none", email |-> Null, status |-> "none", deletedAt |-> NullDate]
NoBlocked == [identifierHash |-> <<>>, type |-> "none", expiresAt |-> NullDate]
NoAccount == [userId |-> "none", providerId |-> "none", password |-> Null]
NoBody == [email |-> Undefined, password |-> Undefined]
NoResult ==
    [kind |-> "none", status |-> "", code |-> "", message |-> "",
     httpStatus |-> 0, deletedAt |-> NullDate, scheduledDeletionDate |-> NullDate]

\* new APIError(status, {code, message})
ApiError(status, code, message) ==
    [NoResult EXCEPT !.kind = "error", !.status = status, !.code = code,
                     !.message = message]

\* ctx.json({message})
Json(message) == [NoResult EXCEPT !.kind = "json", !.message = message]
\* a databaseHook returning false: the host skips its own delete
Veto == [NoResult EXCEPT !.kind = "veto"]
\* a before-hook returning undefined: the request proceeds
Pass == [NoResult EXCEPT !.kind = "pass"]

Idle ==
    [op |-> "idle", pc |-> "idle", body |-> NoBody, user |-> NoUser,
     expiresAt |-> NullDate, existing |-> FALSE, result |-> NoResult,
     path |-> "", account |-> NoAccount]

\* The user record a handler keeps across its awaits (SoftDeletionUserRecord).
\* Only the sign-in guard reads deletedAt, within its single step, so the kept
\* record leaves it out.
UserRecord(row) == [row EXCEPT !.deletedAt = NullDate]

InFlight(q) == req[q].op # "idle" /\ req[q].pc # "done"

\* A request starts in the first free slot (slots are interchangeable); with
\* serial, only when every earlier request has been answered.
CanStart(r, serial) ==
    /\ req[r].op = "idle"
    /\ \A q \in Slots : q < r => req[q].op # "idle"
    /\ serial => \A q \in Slots : req[q].op = "idle"

Done(r, op, body, user, result) ==
    [Idle EXCEPT !.op = op, !.pc = "done", !.body = body, !.user = user,
                 !.result = result]

\* --------------------------------------------------------- storage adapter
\* adapter.findOne({model: "user", where: [{field: "email", value}]})
FindOneUserByEmail(tbl, email) ==
    IF \E u \in DOMAIN tbl : tbl[u].email = Str(email)
    THEN tbl[CHOOSE u \in DOMAIN tbl : tbl[u].email = Str(email)]
    ELSE NoUser

\* adapter.update({model: "user", where: [{field: "id", value}], update})
UpdateUserById(tbl, id, update) ==
    [u \in DOMAIN tbl |->
        IF u = id
        THEN [tbl[u] EXCEPT !.status = update.status, !.deletedAt = update.deletedAt]
        ELSE tbl[u]]

\* adapter.findOne({model: "account", where: [userId, providerId]})
FindOneAccount(tbl, userId, providerId) ==
    IF \E a \in tbl : a.userId = userId /\ a.providerId = providerId
    THEN CHOOSE a \in tbl : a.userId = userId /\ a.providerId = providerId
    ELSE NoAccount

BlockedMatches(row, hash, type) == row.identifierHash = hash /\ row.type = type

\* adapter.findOne({model: "blockedIdentifier", where}): the first matching row
FindOneBlocked(tbl, hash, type) ==
    LET hits == SelectSeq(tbl, LAMBDA row : BlockedMatches(row, hash, type))
    IN IF hits = <<>> THEN NoBlocked ELSE Head(hits)

\* adapter.update({model: "blockedIdentifier", where, update: {expiresAt}})
UpdateBlocked(tbl, hash, type, expiresAt) ==
    [i \in 1..Len(tbl) |->
        IF BlockedMatches(tbl[i], hash, type)
        THEN [tbl[i] EXCEPT !.expiresAt = expiresAt]
        ELSE tbl[i]]

\* adapter.create({model: "blockedIdentifier", data})
CreateBlocked(tbl, data) == Append(tbl, data)

\* adapter.delete({model: "blockedIdentifier", where})
DeleteBlocked(tbl, hash, type) ==
    SelectSeq(tbl, LAMBDA row : ~BlockedMatches(row, hash, type))

\* internalAdapter.deleteSessions(userId), or
\* adapter.delete({model: "session", where: [{field: "userId", value}]})
DeleteSessionsByUserId(tbl, userId) ==
    [u \in DOMAIN tbl |-> IF u = userId THEN 0 ELSE tbl[u]]


\* ------------------------------------------------------------------ helpers
\* readEmailFromBody: the lower-cased, trimmed email of the body, or null
readEmailFromBody(body) ==
    IF body.email.t # "string" THEN Null
    ELSE Str(Trim(ToLowerCase(body.email.v)))

\* Mutant: the metadata is computed from the time of the request.
getDeletionMetadata_Now(deletedAt) ==
    [deletedAt |-> now, scheduledDeletionDate |-> now + RetentionDays]

\* getDeletionMetadata(deletedAt)
getDeletionMetadata(deletedAt) ==
    LET deletedDate == IF deletedAt # NullDate THEN deletedAt ELSE now
    IN [deletedAt |-> deletedDate,
        scheduledDeletionDate |-> deletedDate + RetentionDays]

\* Mutant: the block is left in place.
clearBlockedIdentifier_Skip(tbl, email) == tbl

\* clearBlockedIdentifier(adapter, email): the table after the call
clearBlockedIdentifier(tbl, email) ==
    IF ~Truthy(email) THEN tbl
    ELSE DeleteBlocked(tbl, hashIdentifier(email.v), "email")

\* revokeAllUserSessions(ctx, userId): the table after the call
revokeAllUserSessions(tbl, ctx, userId) ==
    IF ctx.hasDeleteSessions THEN DeleteSessionsByUserId(tbl, userId)
    ELSE IF ~(ctx.hasAdapter /\ ctx.hasDelete) THEN tbl
    ELSE DeleteSessionsByUserId(tbl, userId)

\* restoreAccountBodySchema.safeParse(body).success
restoreAccountBodySchema(body) ==
    /\ body.email.t = "string"
    /\ IsEmailSyntax(body.email.v)
    /\ body.password.t = "string"
    /\ Len(body.password.v) >= 1

\* The hook contexts the host may pass to a database hook: an object or not,
\* with or without an adapter, with or without internalAdapter.deleteSessions,
\* and with an adapter that has or lacks the optional delete method.
Contexts ==
    { [isObject |-> TRUE, hasAdapter |-> TRUE, hasDeleteSessions |-> TRUE,
       hasDelete |-> TRUE],
      [isObject |-> TRUE, hasAdapter |-> TRUE, hasDeleteSessions |-> FALSE,
       hasDelete |-> TRUE],
      [isObject |-> TRUE, hasAdapter |-> TRUE, hasDeleteSessions |-> FALSE,
       hasDelete |-> FALSE],
      [isObject |-> TRUE, hasAdapter |-> FALSE, hasDeleteSessions |-> FALSE,
       hasDelete |-> FALSE],
      [isObject |-> FALSE, hasAdapter |-> FALSE, hasDeleteSessions |-> FALSE,
       hasDelete |-> FALSE] }

\* What options.restoreRateLimit may return; "unset" is no predicate configured.
RateDecisions ==
    { [t |-> "unset", allowed |-> TRUE, code |-> "", message |-> "", status |-> 0],
      [t |-> "undefined", allowed |-> TRUE, code |-> "", message |-> "", status |-> 0],
      [t |-> "null", allowed |-> TRUE, code |-> "", message |-> "", status |-> 0],
      [t |-> "boolean", allowed |-> TRUE, code |-> "", message |-> "", status |-> 0],
      [t |-> "boolean", allowed |-> FALSE, code |-> "", message |-> "", status |-> 0],
      [t |-> "object", allowed |-> TRUE, code |-> "SLOW_DOWN",
       message |-> "Wait.", status |-> 503],
      [t |-> "object", allowed |-> FALSE, code |-> "", message |-> "", status |-> 0],
      [t |-> "object", allowed |-> FALSE, code |-> "SLOW_DOWN", message |-> "",
       status |-> 0],
      [t |-> "object", allowed |-> FALSE, code |-> "SLOW_DOWN",
       message |-> "Wait.", status |-> 503] }

\* blocked of restoreAccount: decision === false || decision.allowed === false
RateLimitBlocked(decision) ==
    /\ decision.t # "unset"
    /\ \/ decision.t = "boolean" /\ ~decision.allowed
       \/ decision.t = "object" /\ ~decision.allowed

\* Mutant: the payload of the predicate is ignored.
RateLimitError_Defaults(decision) ==
    [ApiError("TOO_MANY_REQUESTS", "RESTORE_RATE_LIMITED",
              "Too many restore attempts. Please try again later.")
        EXCEPT !.httpStatus = DefaultRateLimitStatus]

\* the TOO_MANY_REQUESTS error of restoreAccount
RateLimitError(decision) ==
    LET isPayload == decision.t = "object"
        code == IF isPayload /\ decision.code # "" THEN decision.code
                ELSE "RESTORE_RATE_LIMITED"
        message == IF isPayload /\ decision.message # "" THEN decision.message
                   ELSE "Too many restore attempts. Please try again later."
        status == IF isPayload /\ decision.status # 0 THEN decision.status
                  ELSE DefaultRateLimitStatus
    IN [ApiError("TOO_MANY_REQUESTS", code, message) EXCEPT !.httpStatus = status]


\* --------------------------------- databaseHooks.account.delete.before
\* The contexts the host may pass to the account hook: not an object, or an
\* object with the path of the request ("" when it has none).
AccountContexts ==
    { [isObject |-> TRUE, path |-> p] : p \in {"/delete-user", "/unlink-account", ""} }
    \cup { [isObject |-> FALSE, path |-> ""] }

\* Mutant: every account row is kept on /delete-user.
AccountDeleteBefore_AnyProvider(ctx, account) ==
    IF ctx.isObject /\ ctx.path = "/delete-user" THEN Veto ELSE Pass

\* Mutant: the hook never vetoes.
AccountDeleteBefore_NoVeto(ctx, account) == Pass

\* databaseHooks.account.delete.before: false for the credential account on
\* /delete-user, undefined otherwise
AccountDeleteBefore(ctx, account) ==
    IF /\ ctx.isObject
       /\ ctx.path = "/delete-user"
       /\ account.providerId = "credential"
    THEN Veto
    ELSE Pass

\* The host is about to delete an account row: it runs the hook and removes
\* the row unless the hook returned false.
HostDeleteAccount(r, account, ctx, serial) ==
    /\ CanStart(r, serial)
    /\ account \in accounts
    /\ LET returned == AccountDeleteBefore(ctx, account) IN
       /\ accounts' = IF returned = Veto THEN accounts ELSE accounts \ {account}
       /\ req' = [req EXCEPT ![r] =
                      [Idle EXCEPT !.op = "account-delete", !.pc = "done",
                                   !.path = ctx.path, !.account = account,
                                   !.result = returned]]
    /\ UNCHANGED <<now, blockReRegistration, secondaryStorage, secondary,
                   users, sessions, blocked>>

\* ------------------------------------ databaseHooks.user.delete.before
\* Mutant: the update marks the user deleted without recording the date.
SoftDeleteUpdate_NoDate(date) == [status |-> "deleted", deletedAt |-> NullDate]

\* Mutant: the deletion date is a fixed date instead of the current time.
SoftDeleteUpdate_Epoch(date) == [status |-> "deleted", deletedAt |-> 0]

\* update: {status: "deleted", deletedAt: new Date()}
SoftDeleteUpdate(date) == [status |-> "deleted", deletedAt |-> date]

\* Mutant: the retention window is not added to the expiry date.
BlockExpiry_NoRetention(date) == date

\* expiresAt = new Date(); expiresAt.setDate(expiresAt.getDate() + retentionDays)
BlockExpiry(date) == date + RetentionDays

\* Mutant: a row is created without looking at the existing one.
UpsertBlocked_BlindCreate(tbl, existing, hash, expiresAt) ==
    CreateBlocked(tbl, [identifierHash |-> hash, type |-> "email",
                        expiresAt |-> expiresAt])

\* Mutant: only a row that has not expired is extended; beside an expired row
\* a new one is created.
UpsertBlocked_LiveOnly(tbl, existing, hash, expiresAt) ==
    LET date == expiresAt - RetentionDays
        live == { i \in 1..Len(tbl) :
                    /\ tbl[i].identifierHash = hash /\ tbl[i].type = "email"
                    /\ ~(tbl[i].expiresAt # NullDate /\ tbl[i].expiresAt < date) }
    IN IF live # {}
       THEN [i \in 1..Len(tbl) |->
                IF i \in live THEN [tbl[i] EXCEPT !.expiresAt = expiresAt] ELSE tbl[i]]
       ELSE CreateBlocked(tbl, [identifierHash |-> hash, type |-> "email",
                                expiresAt |-> expiresAt])

\* if (existing) adapter.update({..., update: {expiresAt}})
\* else adapter.create({model: "blockedIdentifier", data})
UpsertBlocked(tbl, existing, hash, expiresAt) ==
    IF existing THEN UpdateBlocked(tbl, hash, "email", expiresAt)
    ELSE CreateBlocked(tbl, [identifierHash |-> hash, type |-> "email",
                             expiresAt |-> expiresAt])

\* Mutant: the hook returns undefined, which lets the host delete the row.
UserDeleteReturn_Undefined == Pass

\* return false
UserDeleteReturn == Veto

\* The host after the hook has returned: it deletes the row itself unless the
\* hook returned false.
HostDeleteUser(tbl, id, returned) ==
    IF returned = Veto THEN tbl
    ELSE [u \in DOMAIN tbl \ {id} |-> tbl[u]]

\* Mutant: the sessions are revoked before the adapter is looked for.
UserDeleteBefore_Revoke_Eager(r, u, ctx, serial) ==
    /\ CanStart(r, serial)
    /\ u \in DOMAIN users
    /\ LET parsedUser == UserRecord(users[u]) IN
       IF ~ctx.isObject
       THEN /\ req' = [req EXCEPT ![r] = Done(r, "delete", NoBody, parsedUser,
                           ApiError("INTERNAL_SERVER_ERROR", "SD_CONTEXT_INVALID",
                                    "Soft deletion context is unavailable."))]
            /\ UNCHANGED sessions
       ELSE /\ sessions' = DeleteSessionsByUserId(sessions, parsedUser.id)
            /\ req' = [req EXCEPT ![r] =
                           IF ~ctx.hasAdapter
                           THEN Done(r, "delete", NoBody, parsedUser,
                                    ApiError("INTERNAL_SERVER_ERROR", "SD_ADAPTER_CTX_MISSING",
                                             "Soft deletion adapter context is unavailable."))
                           ELSE [Idle EXCEPT !.op = "delete", !.pc = "update",
                                             !.user = parsedUser]]
    /\ UNCHANGED <<now, blockReRegistration, secondaryStorage, secondary,
                 users, accounts, blocked>>

\* The hook up to its first adapter call: the context checks, then
\* revokeAllUserSessions.  The host passes the user row it is about to delete.
UserDeleteBefore_Revoke(r, u, ctx, serial) ==
    /\ CanStart(r, serial)
    /\ u \in DOMAIN users
    /\ LET parsedUser == UserRecord(users[u]) IN
       IF ~ctx.isObject
       THEN /\ req' = [req EXCEPT ![r] = Done(r, "delete", NoBody, parsedUser,
                           ApiError("INTERNAL_SERVER_ERROR", "SD_CONTEXT_INVALID",
                                    "Soft deletion context is unavailable."))]
            /\ UNCHANGED sessions
       ELSE IF ~ctx.hasAdapter
       THEN /\ req' = [req EXCEPT ![r] = Done(r, "delete", NoBody, parsedUser,
                           ApiError("INTERNAL_SERVER_ERROR", "SD_ADAPTER_CTX_MISSING",
                                    "Soft deletion adapter context is unavailable."))]
            /\ UNCHANGED sessions
       ELSE /\ sessions' = revokeAllUserSessions(sessions, ctx, parsedUser.id)
            /\ req' = [req EXCEPT ![r] =
                           [Idle EXCEPT !.op = "delete", !.pc = "update",
                                        !.user = parsedUser]]
    /\ UNCHANGED <<now, blockReRegistration, secondaryStorage, secondary,
                 users, accounts, blocked>>

\* Mutant: the hook goes on to the block before the user update is issued.
UserDeleteBefore_Update_Skipped(r) ==
    /\ req[r].op = "delete"
    /\ req[r].pc = "update"
    /\ req' = [req EXCEPT ![r] = [req[r] EXCEPT !.pc = "find"]]
    /\ UNCHANGED <<now, blockReRegistration, secondaryStorage, secondary,
                 users, accounts, sessions, blocked>>

\* Mutant: the hook goes on to the block whatever the option and the email.
UserDeleteBefore_Update_AlwaysBlocks(r) ==
    /\ req[r].op = "delete"
    /\ req[r].pc = "update"
    /\ users' = UpdateUserById(users, req[r].user.id, SoftDeleteUpdate(now))
    /\ req' = [req EXCEPT ![r] = [req[r] EXCEPT !.pc = "find"]]
    /\ UNCHANGED <<now, blockReRegistration, secondaryStorage, secondary,
                 accounts, sessions, blocked>>

\* adapter.update({model: "user", ..., update: {status: "deleted", deletedAt: new Date()}})
UserDeleteBefore_Update(r) ==
    /\ req[r].op = "delete"
    /\ req[r].pc = "update"
    /\ LET updated == UpdateUserById(users, req[r].user.id, SoftDeleteUpdate(now)) IN
       IF blockReRegistration /\ Truthy(req[r].user.email)
       THEN /\ users' = updated
            /\ req' = [req EXCEPT ![r] = [req[r] EXCEPT !.pc = "find"]]
       ELSE /\ users' = HostDeleteUser(updated, req[r].user.id, UserDeleteReturn)
            /\ req' = [req EXCEPT ![r] =
                           [req[r] EXCEPT !.pc = "done", !.result = UserDeleteReturn]]
    /\ UNCHANGED <<now, blockReRegistration, secondaryStorage, secondary,
                 accounts, sessions, blocked>>

\* Mutant: the lookup never reports a row.
UserDeleteBefore_Find_Blind(r) ==
    /\ req[r].op = "delete"
    /\ req[r].pc = "find"
    /\ req' = [req EXCEPT ![r] =
                   [req[r] EXCEPT !.pc = "write",
                                  !.expiresAt = BlockExpiry(now),
                                  !.existing = FALSE]]
    /\ UNCHANGED <<now, blockReRegistration, secondaryStorage, secondary,
                 users, accounts, sessions, blocked>>

\* expiresAt = new Date() + retentionDays; existing = adapter.findOne(blockedIdentifier)
UserDeleteBefore_Find(r) ==
    /\ req[r].op = "delete"
    /\ req[r].pc = "find"
    /\ LET hash == hashIdentifier(req[r].user.email.v)
           existing == FindOneBlocked(blocked, hash, "email")
       IN req' = [req EXCEPT ![r] =
                      [req[r] EXCEPT !.pc = "write",
                                     !.expiresAt = BlockExpiry(now),
                                     !.existing = existing # NoBlocked]]
    /\ UNCHANGED <<now, blockReRegistration, secondaryStorage, secondary,
                 users, accounts, sessions, blocked>>

\* if (existing) adapter.update(...) else adapter.create(...); return false
UserDeleteBefore_Write(r) ==
    /\ req[r].op = "delete"
    /\ req[r].pc = "write"
    /\ blocked' = UpsertBlocked(blocked, req[r].existing,
                                hashIdentifier(req[r].user.email.v), req[r].expiresAt)
    /\ users' = HostDeleteUser(users, req[r].user.id, UserDeleteReturn)
    /\ req' = [req EXCEPT ![r] =
                   [req[r] EXCEPT !.pc = "done", !.result = UserDeleteReturn,
                                  !.expiresAt = NullDate]]
    /\ UNCHANGED <<now, blockReRegistration, secondaryStorage, secondary,
                 accounts, sessions>>

\* ---------------------------------------------- endpoints.restoreAccount
\* Mutant: an unknown email gets an error of its own.
UserNotFoundError_Distinct ==
    ApiError("NOT_FOUND", "USER_NOT_FOUND", "User not found.")

\* if (!user) throw new APIError("UNAUTHORIZED", {code: "AUTH_INVALID_CREDENTIALS", ...})
UserNotFoundError ==
    ApiError("UNAUTHORIZED", "AUTH_INVALID_CREDENTIALS", "Invalid email or password.")

\* Mutant: the status check is missing.
NotDeleted_Missing(user) == FALSE

\* if (user.status !== "deleted") throw ...
NotDeleted(user) == user.status # "deleted"

AccountNotDeletedError ==
    ApiError("BAD_REQUEST", "ACCOUNT_NOT_DELETED", "Account is not deleted.")

\* Mutant: an account without a password is answered like a wrong password.
NoPasswordCredentialError_AsInvalid ==
    ApiError("UNAUTHORIZED", "AUTH_INVALID_CREDENTIALS", "Invalid email or password.")

\* if (!currentPassword) throw new APIError("BAD_REQUEST", {code: "NO_PASSWORD_CREDENTIAL", ...})
NoPasswordCredentialError ==
    ApiError("BAD_REQUEST", "NO_PASSWORD_CREDENTIAL",
             "Password confirmation is not available for this account.")

\* if (!validPassword) throw new APIError("UNAUTHORIZED", {code: "AUTH_INVALID_CREDENTIALS", ...})
PasswordMismatchError ==
    ApiError("UNAUTHORIZED", "AUTH_INVALID_CREDENTIALS", "Invalid email or password.")

\* update: {status: "active", deletedAt: null}
\* Mutant: the restore writes a third status.
RestoreUpdate_Purged == [status |-> "purged", deletedAt |-> NullDate]

RestoreUpdate == [status |-> "active", deletedAt |-> NullDate]

\* return parsedCtx.json({message: "Account restored successfully."})
RestoreSuccess == Json("Account restored successfully.")

\* Mutant: the rate limit is consulted before the body is validated.
RestoreCheckUser_RateFirst(tbl, body, decision) ==
    LET user == FindOneUserByEmail(tbl, body.email.v) IN
    IF RateLimitBlocked(decision) THEN RateLimitError(decision)
    ELSE IF ~restoreAccountBodySchema(body)
    THEN ApiError("BAD_REQUEST", "RESTORE_INPUT_REQUIRED",
                  "Email and password are required to restore account.")
    ELSE IF user = NoUser THEN UserNotFoundError
    ELSE IF NotDeleted(user) THEN AccountNotDeletedError
    ELSE NoResult

\* Mutant: the restore is refused to a user without a live session.
RestoreCheckUser_NeedsSession(tbl, body, decision) ==
    LET user == FindOneUserByEmail(tbl, body.email.v) IN
    IF ~restoreAccountBodySchema(body)
    THEN ApiError("BAD_REQUEST", "RESTORE_INPUT_REQUIRED",
                  "Email and password are required to restore account.")
    ELSE IF RateLimitBlocked(decision) THEN RateLimitError(decision)
    ELSE IF user = NoUser THEN UserNotFoundError
    ELSE IF sessions[user.id] = 0 THEN ApiError("UNAUTHORIZED", "", "")
    ELSE IF NotDeleted(user) THEN AccountNotDeletedError
    ELSE NoResult

\* restoreAccount from the body schema to the status check: the error thrown,
\* or NoResult when the handler goes on to the credential lookup.
RestoreCheckUser(tbl, body, decision) ==
    LET user == FindOneUserByEmail(tbl, body.email.v) IN
    IF ~restoreAccountBodySchema(body)
    THEN ApiError("BAD_REQUEST", "RESTORE_INPUT_REQUIRED",
                  "Email and password are required to restore account.")
    ELSE IF RateLimitBlocked(decision) THEN RateLimitError(decision)
    ELSE IF user = NoUser THEN UserNotFoundError
    ELSE IF NotDeleted(user) THEN AccountNotDeletedError
    ELSE NoResult

\* restoreAccount from the credential lookup to password.verify: the error
\* thrown, or NoResult when the handler goes on to reactivate the user.
RestoreCheckAccount(tbl, userId, body) ==
    LET account == FindOneAccount(tbl, userId, "credential")
        currentPassword == account.password
    IN IF ~Truthy(currentPassword) THEN NoPasswordCredentialError
       ELSE IF ~PasswordVerify(currentPassword.v, body.password.v)
       THEN PasswordMismatchError
       ELSE NoResult

\* The handler up to its first adapter call: the body schema, the rate limit,
\* then the user lookup and the status check.
RestoreAccount_FindUser(r, body, decision, serial) ==
    /\ CanStart(r, serial)
    /\ LET user == FindOneUserByEmail(users, body.email.v)
           result == RestoreCheckUser(users, body, decision)
       IN req' = [req EXCEPT ![r] =
                      IF result # NoResult
                      THEN Done(r, "restore", body,
                                IF result = AccountNotDeletedError
                                THEN UserRecord(user) ELSE NoUser,
                                result)
                      ELSE [Idle EXCEPT !.op = "restore", !.pc = "account",
                                        !.body = body, !.user = UserRecord(user)]]
    /\ UNCHANGED <<now, blockReRegistration, secondaryStorage, secondary,
                 users, accounts, sessions, blocked>>

\* Mutant: the user is reactivated before the password is verified.
RestoreAccount_FindAccount_Eager(r) ==
    /\ req[r].op = "restore"
    /\ req[r].pc = "account"
    /\ LET result == RestoreCheckAccount(accounts, req[r].user.id, req[r].body) IN
       req' = [req EXCEPT ![r] =
                   IF result # NoResult
                   THEN Done(r, "restore", req[r].body, req[r].user, result)
                   ELSE [req[r] EXCEPT !.pc = "update"]]
    /\ users' = UpdateUserById(users, req[r].user.id, RestoreUpdate)
    /\ UNCHANGED <<now, blockReRegistration, secondaryStorage, secondary,
                 accounts, sessions, blocked>>

\* adapter.findOne({model: "account", ...}), then password.verify
RestoreAccount_FindAccount(r) ==
    /\ req[r].op = "restore"
    /\ req[r].pc = "account"
    /\ LET result == RestoreCheckAccount(accounts, req[r].user.id, req[r].body) IN
       req' = [req EXCEPT ![r] =
                   IF result # NoResult
                   THEN Done(r, "restore", req[r].body, req[r].user, result)
                   ELSE [req[r] EXCEPT !.pc = "update"]]
    /\ UNCHANGED <<now, blockReRegistration, secondaryStorage, secondary,
                 users, accounts, sessions, blocked>>

\* Mutant: the update re-reads the status and throws when the user is no longer
\* deleted.
RestoreAccount_Update_Conditional(r) ==
    /\ req[r].op = "restore"
    /\ req[r].pc = "update"
    /\ IF NotDeleted(users[req[r].user.id])
       THEN /\ req' = [req EXCEPT ![r] =
                          Done(r, "restore", req[r].body, req[r].user,
                               ApiError("CONFLICT", "RESTORE_CONFLICT",
                                        "Account was restored concurrently."))]
            /\ UNCHANGED users
       ELSE /\ users' = UpdateUserById(users, req[r].user.id, RestoreUpdate)
            /\ req' = [req EXCEPT ![r] = [req[r] EXCEPT !.pc = "clear"]]
    /\ UNCHANGED <<now, blockReRegistration, secondaryStorage, secondary,
                 accounts, sessions, blocked>>

\* adapter.update({model: "user", ..., update: {status: "active", deletedAt: null}})
RestoreAccount_Update(r) ==
    /\ req[r].op = "restore"
    /\ req[r].pc = "update"
    /\ users' = UpdateUserById(users, req[r].user.id, RestoreUpdate)
    /\ req' = [req EXCEPT ![r] = [req[r] EXCEPT !.pc = "clear"]]
    /\ UNCHANGED <<now, blockReRegistration, secondaryStorage, secondary,
                 accounts, sessions, blocked>>

\* clearBlockedIdentifier(adapter, user.email); return json({message})
RestoreAccount_Clear(r) ==
    /\ req[r].op = "restore"
    /\ req[r].pc = "clear"
    /\ blocked' = clearBlockedIdentifier(blocked, req[r].user.email)
    /\ req' = [req EXCEPT ![r] =
                   [req[r] EXCEPT !.pc = "done",
                                  !.result = RestoreSuccess]]
    /\ UNCHANGED <<now, blockReRegistration, secondaryStorage, secondary,
                 users, accounts, sessions>>


\* What the caller sees when an adapter call rejects: the adapter's own error.
AdapterFailure ==
    [NoResult EXCEPT !.kind = "error", !.status = "INTERNAL_SERVER_ERROR",
                     !.code = "ADAPTER_FAILURE"]

\* clearBlockedIdentifier when adapter.delete rejects: neither the helper nor
\* restoreAccount catches, so the rejection leaves the endpoint.
RestoreAccount_ClearFails(r) ==
    /\ req[r].op = "restore"
    /\ req[r].pc = "clear"
    /\ Truthy(req[r].user.email)
    /\ req' = [req EXCEPT ![r] =
                   [req[r] EXCEPT !.pc = "done", !.result = AdapterFailure]]
    /\ UNCHANGED <<now, blockReRegistration, secondaryStorage, secondary,
                   users, accounts, sessions, blocked>>

\* Mutant: the hook swallows the rejection and returns false.
UserDeleteBefore_UpdateFails_Swallowed(r) ==
    /\ req[r].op = "delete"
    /\ req[r].pc = "update"
    /\ req' = [req EXCEPT ![r] =
                   [req[r] EXCEPT !.pc = "done", !.result = UserDeleteReturn]]
    /\ UNCHANGED <<now, blockReRegistration, secondaryStorage, secondary,
                   users, accounts, sessions, blocked>>

\* The hook when adapter.update on user rejects: nothing catches, so the
\* rejection leaves the hook and the host abandons the delete.
UserDeleteBefore_UpdateFails(r) ==
    /\ req[r].op = "delete"
    /\ req[r].pc = "update"
    /\ req' = [req EXCEPT ![r] =
                   [req[r] EXCEPT !.pc = "done", !.result = AdapterFailure]]
    /\ UNCHANGED <<now, blockReRegistration, secondaryStorage, secondary,
                   users, accounts, sessions, blocked>>

\* ------------------------------------------------------------ hooks.before
\* Mutant: the guard tests for a status the plugin never writes.
SignInRejects_WrongStatus(user) == user # NoUser /\ user.status = "inactive"

\* if (user && user.status === "deleted") throw ...
SignInRejects(user) == user # NoUser /\ user.status = "deleted"

AccountDeletedError(meta) ==
    [ApiError("FORBIDDEN", "ACCOUNT_DELETED", "Your account has been deleted.")
        EXCEPT !.deletedAt = meta.deletedAt,
               !.scheduledDeletionDate = meta.scheduledDeletionDate]

\* The decision of the sign-in guard on a body, given the user table.
SignInDecision(tbl, body) ==
    LET email == readEmailFromBody(body)
        user == FindOneUserByEmail(tbl, email.v)
    IN IF ~Truthy(email) THEN Pass
       ELSE IF SignInRejects(user)
       THEN AccountDeletedError(getDeletionMetadata(user.deletedAt))
       ELSE Pass

\* The sign-in guard (matcher: path starts with /sign-in).
SignInBefore(r, body, serial) ==
    /\ CanStart(r, serial)
    /\ LET decision == SignInDecision(users, body) IN
       req' = [req EXCEPT ![r] =
                   IF decision = Pass
                   THEN [Idle EXCEPT !.op = "signin", !.pc = "host", !.body = body]
                   ELSE Done(r, "signin", body, NoUser, decision)]
    /\ UNCHANGED <<now, blockReRegistration, secondaryStorage, secondary,
                 users, accounts, sessions, blocked>>

\* The host's sign-in once the guard has let the request through: it looks the
\* user up by email, verifies the password and creates a session.
HostSignIn(r) ==
    /\ req[r].op = "signin"
    /\ req[r].pc = "host"
    /\ LET email == readEmailFromBody(req[r].body)
           user == FindOneUserByEmail(users, email.v)
           account == FindOneAccount(accounts, user.id, "credential")
           ok == /\ Truthy(email)
                 /\ user # NoUser
                 /\ req[r].body.password.t = "string"
                 /\ Truthy(account.password)
                 /\ PasswordVerify(account.password.v, req[r].body.password.v)
       IN /\ ok => sessions[user.id] < MaxSessions
          /\ sessions' = IF ok THEN [sessions EXCEPT ![user.id] = @ + 1] ELSE sessions
          /\ req' = [req EXCEPT ![r] =
                         Done(r, "signin", req[r].body, NoUser,
                              IF ok THEN Pass
                              ELSE ApiError("UNAUTHORIZED", "INVALID_EMAIL_OR_PASSWORD",
                                            "Invalid email or password"))]
    /\ UNCHANGED <<now, blockReRegistration, secondaryStorage, secondary,
                 users, accounts, blocked>>

\* Mutant: a block that expires now counts as expired.
IsExpired_Inclusive(row, date) == row.expiresAt # NullDate /\ row.expiresAt <= date

\* blocked.expiresAt && blocked.expiresAt < new Date()
IsExpired(row, date) == row.expiresAt # NullDate /\ row.expiresAt < date

EmailBlockedError ==
    ApiError("FORBIDDEN", "EMAIL_BLOCKED", "This email is not allowed to register.")

\* The decision of the sign-up guard (matcher: path = /sign-up/email).
SignUpDecision(tbl, body, date) ==
    LET email == readEmailFromBody(body)
        hash == hashIdentifier(email.v)
        row == FindOneBlocked(tbl, hash, "email")
    IN IF ~Truthy(email) THEN Pass
       ELSE IF row = NoBlocked THEN Pass
       ELSE IF IsExpired(row, date) THEN Pass
       ELSE EmailBlockedError

\* Mutant: the guard deletes the rows it finds expired.
SignUpBefore_Purging(r, body, serial) ==
    /\ CanStart(r, serial)
    /\ req' = [req EXCEPT ![r] =
                   Done(r, "signup", body, NoUser, SignUpDecision(blocked, body, now))]
    /\ blocked' = SelectSeq(blocked, LAMBDA row : ~IsExpired(row, now))
    /\ UNCHANGED <<now, blockReRegistration, secondaryStorage, secondary,
                 users, accounts, sessions>>

SignUpBefore(r, body, serial) ==
    /\ CanStart(r, serial)
    /\ req' = [req EXCEPT ![r] =
                   Done(r, "signup", body, NoUser, SignUpDecision(blocked, body, now))]
    /\ UNCHANGED <<now, blockReRegistration, secondaryStorage, secondary,
                 users, accounts, sessions, blocked>>

\* ------------------------------------------------------------- environment
\* The host sends the response of a finished request.
Respond(r) ==
    /\ req[r].pc = "done"
    /\ req' = [req EXCEPT ![r] = Idle]
    /\ UNCHANGED <<now, blockReRegistration, secondaryStorage, secondary,
                 users, accounts, sessions, blocked>>

\* A day passes.  With serial, a request takes no time: the clock only moves
\* between requests.
Tick(serial) ==
    /\ now < MaxTime
    /\ serial => \A q \in Slots : ~InFlight(q)
    /\ now' = now + 1
    /\ UNCHANGED <<blockReRegistration, secondaryStorage, secondary,
                 users, accounts, sessions, blocked, req>>

\* ------------------------------------------------------------------ inputs
RestoreBodies ==
    { [email |-> e, password |-> Str(GoodPassword)] :
          e \in {Str(AliceEmail), Str(AliceUpper), Str(AlicePadded),
                 Str(BobEmail), Str(CarolEmail), Undefined} }
    \cup
    { [email |-> Str(AliceEmail), password |-> p] :
          p \in {Str(WrongPassword), Str(<<>>), Undefined} }
    \cup
    { [email |-> e, password |-> Str(WrongPassword)] :
          e \in {Str(BobEmail), Str(CarolEmail)} }

SignInBodies ==
    { [email |-> e, password |-> Str(GoodPassword)] :
          e \in {Str(AliceEmail), Str(AliceUpper), Str(BobEmail),
                 Str(CarolEmail), Undefined} }
    \cup { [email |-> Str(AliceEmail), password |-> Str(WrongPassword)] }

SignUpBodies ==
    { [email |-> e, password |-> Str(GoodPassword)] :
          e \in {Str(AliceEmail), Str(AlicePadded), Str(AliceUpper), Str(BobEmail),
                 Str(CarolEmail), Str(<<>>), Num, Undefined} }

\* ----------------------------------------------------------- specification
Init ==
    /\ now = 0
    /\ blockReRegistration \in BOOLEAN
    /\ secondaryStorage = FALSE
    /\ secondary = {}
    /\ users = [u \in UserIds |->
                   [id |-> u,
                    email |-> IF u = "u1" THEN Str(AliceEmail) ELSE Str(BobEmail),
                    status |-> "active",
                    deletedAt |-> NullDate]]
    /\ accounts = { [userId |-> "u1", providerId |-> "credential",
                     password |-> Str(HashPassword(GoodPassword))],
                    [userId |-> "u2", providerId |-> "github", password |-> Null] }
    /\ sessions = [u \in UserIds |-> 0]
    /\ blocked = <<>>
    /\ req = [r \in Slots |-> Idle]

Step(serial, ids, restoreBodies, signInBodies, signUpBodies) ==
    \E r \in Slots :
        \/ \E u \in ids, ctx \in Contexts : UserDeleteBefore_Revoke(r, u, ctx, serial)
        \/ UserDeleteBefore_Update(r)
        \/ UserDeleteBefore_Find(r)
        \/ UserDeleteBefore_Write(r)
        \/ \E body \in restoreBodies, decision \in RateDecisions :
               RestoreAccount_FindUser(r, body, decision, serial)
        \/ RestoreAccount_FindAccount(r)
        \/ RestoreAccount_Update(r)
        \/ RestoreAccount_Clear(r)
        \/ \E body \in signInBodies : SignInBefore(r, body, serial)
        \/ HostSignIn(r)
        \/ \E body \in signUpBodies : SignUpBefore(r, body, serial)
        \/ Respond(r)

\* Requests interleave at adapter-call granularity.
RaceRestoreBodies ==
    { [email |-> Str(AliceEmail), password |-> Str(GoodPassword)],
      [email |-> Str(AliceEmail), password |-> Str(WrongPassword)],
      [email |-> Str(CarolEmail), password |-> Str(GoodPassword)] }
RaceSignInBodies == { [email |-> Str(AliceEmail), password |-> Str(GoodPassword)] }
RaceSignUpBodies == { [email |-> Str(AliceEmail), password |-> Str(GoodPassword)] }

Next ==
    \/ Step(FALSE, {"u1"}, RaceRestoreBodies, RaceSignInBodies, RaceSignUpBodies)
    \/ Tick(FALSE)
Spec == Init /\ [][Next]_vars

\* Requests do not overlap.
NextSeq ==
    \/ Step(TRUE, UserIds, RestoreBodies, SignInBodies, SignUpBodies)
    \/ Tick(TRUE)

\* The table may already hold a block without an expiry (expiresAt is optional
\* in BlockedIdentifier), here for an email no user has.
PermanentBlock ==
    [identifierHash |-> hashIdentifier(CarolEmail), type |-> "email",
     expiresAt |-> NullDate]

InitSeq ==
    /\ now = 0
    /\ blockReRegistration \in BOOLEAN
    /\ secondaryStorage = FALSE
    /\ secondary = {}
    /\ users = [u \in UserIds |->
                   [id |-> u,
                    email |-> IF u = "u1" THEN Str(AliceEmail) ELSE Str(BobEmail),
                    status |-> "active",
                    deletedAt |-> NullDate]]
    /\ accounts = { [userId |-> "u1", providerId |-> "credential",
                     password |-> Str(HashPassword(GoodPassword))],
                    [userId |-> "u2", providerId |-> "github", password |-> Null] }
    /\ sessions = [u \in UserIds |-> 0]
    /\ blocked \in {<<>>, <<PermanentBlock>>}
    /\ req = [r \in Slots |-> Idle]

SpecSeq == InitSeq /\ [][NextSeq]_vars

\* A restore request carrying Alice's email and her password.
GoodRestore == [email |-> Str(AliceEmail), password |-> Str(GoodPassword)]

\* Alice has been soft-deleted at day 0 and the request has returned; two
\* restore requests for her, one per slot, then run one adapter call at a time.
InitRestoreRace ==
    /\ now = 0
    /\ blockReRegistration \in BOOLEAN
    /\ secondaryStorage = FALSE
    /\ secondary = {}
    /\ users = [u \in UserIds |->
                   [id |-> u,
                    email |-> IF u = "u1" THEN Str(AliceEmail) ELSE Str(BobEmail),
                    status |-> IF u = "u1" THEN "deleted" ELSE "active",
                    deletedAt |-> IF u = "u1" THEN 0 ELSE NullDate]]
    /\ accounts = { [userId |-> "u1", providerId |-> "credential",
                     password |-> Str(HashPassword(GoodPassword))],
                    [userId |-> "u2", providerId |-> "github", password |-> Null] }
    /\ sessions = [u \in UserIds |-> 0]
    /\ blocked = IF blockReRegistration
                 THEN UpsertBlocked(<<>>, FALSE, hashIdentifier(AliceEmail),
                                    BlockExpiry(0))
                 ELSE <<>>
    /\ req = [r \in Slots |-> Idle]

NextRestoreRace ==
    \/ \E r \in Slots, decision \in RateDecisions :
           RestoreAccount_FindUser(r, GoodRestore, decision, FALSE)
    \/ \E r \in Slots : RestoreAccount_FindAccount(r)
    \/ \E r \in Slots : RestoreAccount_Update(r)
    \/ \E r \in Slots : RestoreAccount_Clear(r)
    \/ Tick(FALSE)

SpecRestoreRace == InitRestoreRace /\ [][NextRestoreRace]_vars

\* Requests do not overlap, and the second user's row has no email (email is
\* optional in SoftDeletionUserRecord).
InitNoEmail ==
    /\ now = 0
    /\ blockReRegistration \in BOOLEAN
    /\ secondaryStorage = FALSE
    /\ secondary = {}
    /\ users = [u \in UserIds |->
                   [id |-> u,
                    email |-> IF u = "u1" THEN Str(AliceEmail) ELSE Null,
                    status |-> "active",
                    deletedAt |-> NullDate]]
    /\ accounts = { [userId |-> "u1", providerId |-> "credential",
                     password |-> Str(HashPassword(GoodPassword))],
                    [userId |-> "u2", providerId |-> "github", password |-> Null] }
    /\ sessions = [u \in UserIds |-> 0]
    /\ blocked = <<>>
    /\ req = [r \in Slots |-> Idle]

SpecNoEmail == InitNoEmail /\ [][NextSeq]_vars

\* Requests do not overlap, and calls of the adapter may fail.
NextFault ==
    \/ NextSeq
    \/ \E r \in Slots : RestoreAccount_ClearFails(r)
    \/ \E r \in Slots : UserDeleteBefore_UpdateFails(r)
SpecFault == InitSeq /\ [][NextFault]_vars

\* Requests do not overlap, and the host also deletes account rows, each time
\* through databaseHooks.account.delete.before.
NextAccounts ==
    \/ NextSeq
    \/ \E r \in Slots, account \in accounts, ctx \in AccountContexts :
           HostDeleteAccount(r, account, ctx, TRUE)
SpecAccounts == InitSeq /\ [][NextAccounts]_vars

\* ============================================================ src/index.ts
\* The plugin of src/src/index.ts: a password-presence guard on /delete-user,
\* an interceptor that always creates a block row and mirrors it in the
\* secondary storage, and a restore endpoint for the caller's session.

\* secondaryStorage.set(key, "true", retentionDays * 24 * 60 * 60)
SecondarySet(store, key, date) ==
    { e \in store : e.key # key } \cup { [key |-> key, expiresAt |-> date + RetentionDays] }

\* secondaryStorage.get(key): the value, while its time to live has not run out
SecondaryGet(store, key, date) ==
    \E e \in store : e.key = key /\ date < e.expiresAt

\* secondaryStorage.delete(key)
SecondaryDelete(store, key) == { e \in store : e.key # key }

\* Mutant: the password is not trimmed.
DeleteUserPassword_NoTrim(body) ==
    IF body.password.t = "string" THEN body.password.v ELSE <<>>

\* const password = typeof body?.password === "string" ? body.password.trim() : ""
DeleteUserPassword(body) ==
    IF body.password.t = "string" THEN Trim(body.password.v) ELSE <<>>

PasswordRequiredError ==
    ApiError("BAD_REQUEST", "", "Password confirmation is required to delete your account.")

\* The /delete-user guard: the error thrown, or Pass.
DeleteUserDecision(body) ==
    IF DeleteUserPassword(body) = <<>> THEN PasswordRequiredError ELSE Pass

\* The guard on a /delete-user request of user u.  Once it lets the request
\* through, the host goes on to the deletion interceptor.
IdxDeleteUserBefore(r, u, body, serial) ==
    /\ CanStart(r, serial)
    /\ u \in DOMAIN users
    /\ Len(blocked) < MaxBlockedRows
    /\ LET decision == DeleteUserDecision(body) IN
       req' = [req EXCEPT ![r] =
                   IF decision = Pass
                   THEN [Idle EXCEPT !.op = "delete", !.pc = "update", !.body = body,
                                     !.user = UserRecord(users[u])]
                   ELSE Done(r, "delete", body, UserRecord(users[u]), decision)]
    /\ UNCHANGED <<now, blockReRegistration, secondaryStorage, secondary,
                   users, accounts, sessions, blocked>>

\* blockReRegistration && user.email
IdxBlocks(user) == blockReRegistration /\ Truthy(user.email)

\* The interceptor up to adapter.update: the adapter check, then the update
\* {status: "deleted", deletedAt: new Date()}.
IdxUserDeleteBefore_Update(r, hasAdapter) ==
    /\ req[r].op = "delete"
    /\ req[r].pc = "update"
    /\ IF ~hasAdapter
       THEN /\ req' = [req EXCEPT ![r] =
                          Done(r, "delete", req[r].body, req[r].user,
                               ApiError("INTERNAL_SERVER_ERROR", "",
                                        "Soft deletion adapter context is unavailable."))]
            /\ UNCHANGED users
       ELSE LET updated == UpdateUserById(users, req[r].user.id, SoftDeleteUpdate(now)) IN
            IF IdxBlocks(req[r].user)
            THEN /\ users' = updated
                 /\ req' = [req EXCEPT ![r] = [req[r] EXCEPT !.pc = "create"]]
            ELSE /\ users' = HostDeleteUser(updated, req[r].user.id, Veto)
                 /\ req' = [req EXCEPT ![r] =
                               Done(r, "delete", req[r].body, req[r].user, Veto)]
    /\ UNCHANGED <<now, blockReRegistration, secondaryStorage, secondary,
                   accounts, sessions, blocked>>

\* adapter.create({model: "blockedIdentifier", data}); without a secondary
\* storage the interceptor then returns false.
IdxUserDeleteBefore_Create(r) ==
    /\ req[r].op = "delete"
    /\ req[r].pc = "create"
    /\ blocked' = CreateBlocked(blocked,
                      [identifierHash |-> hashIdentifier(req[r].user.email.v),
                       type |-> "email",
                       expiresAt |-> BlockExpiry(now)])
    /\ IF secondaryStorage
       THEN /\ req' = [req EXCEPT ![r] = [req[r] EXCEPT !.pc = "cache"]]
            /\ UNCHANGED users
       ELSE /\ req' = [req EXCEPT ![r] =
                          Done(r, "delete", req[r].body, req[r].user, Veto)]
            /\ users' = HostDeleteUser(users, req[r].user.id, Veto)
    /\ UNCHANGED <<now, blockReRegistration, secondaryStorage, secondary,
                   accounts, sessions>>

\* options.secondaryStorage.set(`blocked-email:${hash}`, "true", ttl); return false
IdxUserDeleteBefore_Cache(r) ==
    /\ req[r].op = "delete"
    /\ req[r].pc = "cache"
    /\ secondary' = SecondarySet(secondary, hashIdentifier(req[r].user.email.v), now)
    /\ users' = HostDeleteUser(users, req[r].user.id, Veto)
    /\ req' = [req EXCEPT ![r] = Done(r, "delete", req[r].body, req[r].user, Veto)]
    /\ UNCHANGED <<now, blockReRegistration, secondaryStorage,
                   accounts, sessions, blocked>>

\* body.email.toLowerCase() on a value that is no string
NotAFunctionError == [NoResult EXCEPT !.kind = "error", !.status = "TypeError"]

IdxAccountDeletedError == ApiError("FORBIDDEN", "", "Your account has been deleted.")

\* The decision of the sign-in guard of src/index.ts.
IdxSignInDecision(tbl, body) ==
    IF ~Truthy(body.email) THEN Pass
    ELSE IF body.email.t # "string" THEN NotAFunctionError
    ELSE LET user == FindOneUserByEmail(tbl, Trim(ToLowerCase(body.email.v)))
         IN IF user # NoUser /\ user.status = "deleted"
            THEN IdxAccountDeletedError
            ELSE Pass

IdxSignInBefore(r, body, serial) ==
    /\ CanStart(r, serial)
    /\ LET decision == IdxSignInDecision(users, body) IN
       req' = [req EXCEPT ![r] =
                   IF decision = Pass
                   THEN [Idle EXCEPT !.op = "signin", !.pc = "host", !.body = body]
                   ELSE Done(r, "signin", body, NoUser, decision)]
    /\ UNCHANGED <<now, blockReRegistration, secondaryStorage, secondary,
                   users, accounts, sessions, blocked>>

IdxEmailBlockedError ==
    ApiError("FORBIDDEN", "", "This email is not allowed to register.")

\* The decision of the sign-up guard of src/index.ts: the secondary storage
\* first, then the blockedIdentifier table.
IdxSignUpDecision(store, tbl, body, date) ==
    IF ~Truthy(body.email) THEN Pass
    ELSE LET hash == hashIdentifier(body.email.v)
             row == FindOneBlocked(tbl, hash, "email")
         IN IF secondaryStorage /\ SecondaryGet(store, hash, date)
            THEN IdxEmailBlockedError
            ELSE IF row = NoBlocked THEN Pass
            ELSE IF IsExpired(row, date) THEN Pass
            ELSE IdxEmailBlockedError

IdxSignUpBefore(r, body, serial) ==
    /\ CanStart(r, serial)
    /\ req' = [req EXCEPT ![r] =
                   Done(r, "signup", body, NoUser,
                        IdxSignUpDecision(secondary, blocked, body, now))]
    /\ UNCHANGED <<now, blockReRegistration, secondaryStorage, secondary,
                   users, accounts, sessions, blocked>>

\* Mutant: the caller without a session is answered like a blocked one.
IdxUnauthorizedError_Forbidden == ApiError("FORBIDDEN", "", "")

\* throw new APIError("UNAUTHORIZED")
IdxUnauthorizedError == ApiError("UNAUTHORIZED", "", "")

\* The sessions the host may resolve for a request: none, or a session of a
\* user that has one.
IdxSessions == {NoUser} \cup { UserRecord(users[u]) : u \in { v \in DOMAIN users : sessions[v] > 0 } }

\* restoreAccount of src/index.ts up to adapter.update: the session check, then
\* the update {status: "active", deletedAt: null} of the session's user.
IdxRestoreAccount_Update(r, session, serial) ==
    /\ CanStart(r, serial)
    /\ IF session = NoUser
       THEN /\ req' = [req EXCEPT ![r] =
                          Done(r, "restore", NoBody, NoUser, IdxUnauthorizedError)]
            /\ UNCHANGED users
       ELSE /\ users' = UpdateUserById(users, session.id, RestoreUpdate)
            /\ req' = [req EXCEPT ![r] =
                          [Idle EXCEPT !.op = "restore", !.pc = "clear",
                                       !.user = session]]
    /\ UNCHANGED <<now, blockReRegistration, secondaryStorage, secondary,
                   accounts, sessions, blocked>>

\* adapter.delete?.({model: "blockedIdentifier", where}); without a secondary
\* storage the endpoint then answers.
IdxRestoreAccount_Clear(r) ==
    /\ req[r].op = "restore"
    /\ req[r].pc = "clear"
    /\ blocked' = IF Truthy(req[r].user.email)
                  THEN DeleteBlocked(blocked, hashIdentifier(req[r].user.email.v), "email")
                  ELSE blocked
    /\ req' = [req EXCEPT ![r] =
                   IF Truthy(req[r].user.email) /\ secondaryStorage
                   THEN [req[r] EXCEPT !.pc = "uncache"]
                   ELSE [req[r] EXCEPT !.pc = "done", !.result = RestoreSuccess]]
    /\ UNCHANGED <<now, blockReRegistration, secondaryStorage, secondary,
                   users, accounts, sessions>>

\* options.secondaryStorage.delete(`blocked-email:${hash}`); return ctx.json({message})
IdxRestoreAccount_Uncache(r) ==
    /\ req[r].op = "restore"
    /\ req[r].pc = "uncache"
    /\ secondary' = SecondaryDelete(secondary, hashIdentifier(req[r].user.email.v))
    /\ req' = [req EXCEPT ![r] =
                   [req[r] EXCEPT !.pc = "done", !.result = RestoreSuccess]]
    /\ UNCHANGED <<now, blockReRegistration, secondaryStorage,
                   users, accounts, sessions, blocked>>

\* The bodies of /delete-user requests.
DeleteUserBodies ==
    { [email |-> Undefined, password |-> p] :
          p \in {Undefined, Null, Num, Str(<<>>), Str(BlankPassword),
                 Str(<<" ", "p", " ">>), Str(GoodPassword), Str(WrongPassword)} }

InitIdx ==
    /\ now = 0
    /\ blockReRegistration \in BOOLEAN
    /\ secondaryStorage \in BOOLEAN
    /\ secondary = {}
    /\ users = [u \in UserIds |->
                   [id |-> u,
                    email |-> IF u = "u1" THEN Str(AliceEmail) ELSE Str(BobEmail),
                    status |-> "active",
                    deletedAt |-> NullDate]]
    /\ accounts = { [userId |-> "u1", providerId |-> "credential",
                     password |-> Str(HashPassword(GoodPassword))],
                    [userId |-> "u2", providerId |-> "github", password |-> Null] }
    /\ sessions = [u \in UserIds |-> 0]
    /\ blocked = <<>>
    /\ req = [r \in Slots |-> Idle]

\* The requests of src/index.ts do not overlap.
NextIdx ==
    \/ \E r \in Slots :
        \/ \E u \in UserIds, body \in DeleteUserBodies :
               IdxDeleteUserBefore(r, u, body, TRUE)
        \/ \E hasAdapter \in BOOLEAN : IdxUserDeleteBefore_Update(r, hasAdapter)
        \/ IdxUserDeleteBefore_Create(r)
        \/ IdxUserDeleteBefore_Cache(r)
        \/ \E session \in IdxSessions : IdxRestoreAccount_Update(r, session, TRUE)
        \/ IdxRestoreAccount_Clear(r)
        \/ IdxRestoreAccount_Uncache(r)
        \/ \E body \in SignInBodies : IdxSignInBefore(r, body, TRUE)
        \/ HostSignIn(r)
        \/ \E body \in SignUpBodies : IdxSignUpBefore(r, body, TRUE)
        \/ Respond(r)
    \/ Tick(TRUE)
SpecIdx == InitIdx /\ [][NextIdx]_vars

\* The requests of src/index.ts do not overlap, but their awaited calls take
\* time: the clock may move between new Date() for expiresAt and
\* secondaryStorage.set, whose time to live starts when the entry is written.
NextIdxLatency ==
    \/ NextIdx
    \/ Tick(FALSE)
SpecIdxLatency == InitIdx /\ [][NextIdxLatency]_vars

\* ================================================================== claims
\* The rows of the blockedIdentifier table for an email that have not expired:
\* expiresAt is null or not in the past.
LiveBlocks(email) ==
    { i \in 1..Len(blocked) :
        /\ blocked[i].identifierHash = hashIdentifier(email)
        /\ blocked[i].type = "email"
        /\ (blocked[i].expiresAt = NullDate \/ blocked[i].expiresAt >= now) }

BlocksOf(tbl, email) ==
    { i \in 1..Len(tbl) :
        tbl[i].identifierHash = hashIdentifier(email) /\ tbl[i].type = "email" }

NoneInFlight == \A q \in Slots : ~InFlight(q)

Rejected(result, status, code) ==
    result.kind = "error" /\ result.status = status /\ result.code = code

\* C1: for every user, in every state reached by any interleaving of deletes,
\* restores and guard checks at adapter-call granularity, status is "deleted"
\* if and only if deletedAt is non-null.
C1_StatusIffDeletedAt ==
    \A u \in DOMAIN users :
        (users[u].status = "deleted") <=> (users[u].deletedAt # NullDate)

\* A restore has reactivated the user between the interceptor's user update and
\* its write of the block.
C1_Witness ==
    \E a, b \in Slots :
        /\ req[a].op = "delete" /\ req[a].pc = "write"
        /\ req[b].op = "restore" /\ req[b].pc = "clear"
        /\ req[a].user.id = req[b].user.id
        /\ users[req[a].user.id].status = "active"

\* C2: the deletion interceptor never removes a User row: every run that
\* completes returns false, and the set of user ids in storage never changes.
C2_DeleteKeepsRow ==
    /\ DOMAIN users = UserIds
    /\ \A r \in Slots :
           (req[r].op = "delete" /\ req[r].pc = "done" /\ req[r].result.kind # "error")
               => req[r].result = Veto

C2_Witness ==
    \E r \in Slots :
        /\ req[r].op = "delete" /\ req[r].pc = "done" /\ req[r].result = Veto
        /\ req[r].user.id \in DOMAIN users
        /\ users[req[r].user.id].status = "deleted"

C4_SignInRejectedWhileDeleted ==
    \A u \in DOMAIN users, body \in SignInBodies :
        readEmailFromBody(body) = users[u].email =>
            LET decision == SignInDecision(users, body) IN
            /\ users[u].status = "deleted"
                   => Rejected(decision, "FORBIDDEN", "ACCOUNT_DELETED")
            /\ users[u].status = "active" => decision = Pass

\* A sign-in was rejected while the user was deleted; the user has since been
\* restored and the guard has let a later sign-in through to the host.
C4_Witness ==
    \E a, b \in Slots, u \in DOMAIN users :
        /\ req[a].op = "signin" /\ req[a].pc = "done"
        /\ Rejected(req[a].result, "FORBIDDEN", "ACCOUNT_DELETED")
        /\ req[b].op = "signin" /\ req[b].pc = "host"
        /\ readEmailFromBody(req[a].body) = users[u].email
        /\ readEmailFromBody(req[b].body) = users[u].email
        /\ users[u].status = "active"

\* The restore in slot r is for a body that passes the schema and names a
\* soft-deleted user whose credential password it matches.
RestoreIsValid(r) ==
    LET user == FindOneUserByEmail(users, req[r].body.email.v) IN
    /\ restoreAccountBodySchema(req[r].body)
    /\ user # NoUser
    /\ user.status = "deleted"
    /\ RestoreCheckAccount(accounts, user.id, req[r].body) = NoResult

C5_RestoreStep(r) ==
    LET id == req[r].user.id IN
    /\ (/\ req[r].op = "idle" /\ req'[r].op = "restore" /\ RestoreIsValid(r)'
        /\ req'[r].result.status # "TOO_MANY_REQUESTS")
           => req'[r].pc = "account"
    /\ (req[r].op = "restore" /\ req[r].pc = "account" /\ RestoreIsValid(r))
           => req'[r].pc = "update"
    /\ (req[r].op = "restore" /\ req[r].pc = "update")
           => /\ req'[r].pc = "clear"
              /\ users'[id].status = "active"
              /\ users'[id].deletedAt = NullDate
    /\ (req[r].op = "restore" /\ req[r].pc = "clear")
           => /\ req'[r].pc = "done"
              /\ req'[r].result = Json("Account restored successfully.")
              /\ BlocksOf(blocked', users[id].email.v) = {}
              /\ users' = users
    /\ (req[r].op = "restore" \/ req'[r].op = "restore") => sessions' = sessions

C5_Restored ==
    \A r \in Slots :
        (req[r].op = "restore" /\ req[r].pc = "done" /\ req[r].result.kind = "json")
            => /\ users[req[r].user.id].status = "active"
               /\ users[req[r].user.id].deletedAt = NullDate
               /\ BlocksOf(blocked, users[req[r].user.id].email.v) = {}
               /\ req[r].result.message = "Account restored successfully."

C6_SecondRestoreRejected ==
    [][\A a, b \in Slots :
          (/\ req[a].op = "restore" /\ req[a].pc = "done"
           /\ req[a].result = RestoreSuccess
           /\ users[req[a].user.id].status = "active"
           /\ req[b].op = "idle" /\ req'[b].op = "restore"
           /\ req'[b].body = req[a].body
           /\ req'[b].result.status # "TOO_MANY_REQUESTS")
          => /\ req'[b].pc = "done"
             /\ Rejected(req'[b].result, "BAD_REQUEST", "ACCOUNT_NOT_DELETED")
             /\ UNCHANGED <<users, blocked, sessions, accounts, secondary>>]_vars

C6_Witness ==
    \E a, b \in Slots :
        /\ req[a].op = "restore" /\ req[a].pc = "done"
        /\ req[a].result = RestoreSuccess
        /\ req[b].op = "restore" /\ req[b].pc = "done"
        /\ req[b].body = req[a].body
        /\ Rejected(req[b].result, "BAD_REQUEST", "ACCOUNT_NOT_DELETED")
        /\ users[req[a].user.id].status = "active"

\* C7: a restore with a wrong password for a soft-deleted user that holds a
\* password credential, and a restore for an email no user has, are answered
\* with the same error: UNAUTHORIZED / AUTH_INVALID_CREDENTIALS and the same
\* message.
C7_SameErrorForUnknownAndWrongPassword ==
    \A a, b \in Slots :
        LET account == FindOneAccount(accounts, req[a].user.id, "credential") IN
        (/\ req[a].op = "restore" /\ req[a].pc = "done"
         /\ req[a].user # NoUser /\ req[a].user.status = "deleted"
         /\ Truthy(account.password)
         /\ ~PasswordVerify(account.password.v, req[a].body.password.v)
         /\ req[b].op = "restore" /\ req[b].pc = "done"
         /\ restoreAccountBodySchema(req[b].body)
         /\ FindOneUserByEmail(users, req[b].body.email.v) = NoUser
         /\ req[b].result.status # "TOO_MANY_REQUESTS")
        => /\ req[a].result = req[b].result
           /\ Rejected(req[a].result, "UNAUTHORIZED", "AUTH_INVALID_CREDENTIALS")
           /\ Rejected(req[b].result, "UNAUTHORIZED", "AUTH_INVALID_CREDENTIALS")

C7_Witness ==
    \E a, b \in Slots :
        /\ req[a].op = "restore" /\ req[a].pc = "done"
        /\ req[a].user.status = "deleted"
        /\ req[a].body = [email |-> Str(AliceEmail), password |-> Str(WrongPassword)]
        /\ req[b].op = "restore" /\ req[b].pc = "done"
        /\ req[b].body.email = Str(CarolEmail)
        /\ req[a].result = req[b].result
        /\ req[a].result.code = "AUTH_INVALID_CREDENTIALS"

\* The answer of the restore endpoint to a body, computed on given user and
\* account tables: the error thrown, or NoResult when the restore goes ahead.
RestoreOutcome(userTbl, accountTbl, body) ==
    LET first == RestoreCheckUser(userTbl, body, CHOOSE d \in RateDecisions : d.t = "unset")
        user == FindOneUserByEmail(userTbl, body.email.v)
    IN IF first # NoResult THEN first
       ELSE RestoreCheckAccount(accountTbl, user.id, body)

\* The user table without the users that have the email.
WithoutEmail(tbl, email) ==
    [u \in { v \in DOMAIN tbl : tbl[v].email # email } |-> tbl[u]]

\* The bodies that pass the schema and do not carry the password of the user
\* they name.
FailingRestoreBodies ==
    { body \in RestoreBodies :
        /\ restoreAccountBodySchema(body)
        /\ body.password.v # GoodPassword }

\* C8 as stated: a failing restore for an email answers as it would if no user
\* had that email, whatever the user's status or credential type.
C8_NoDisclosure ==
    \A body \in FailingRestoreBodies :
        RestoreOutcome(users, accounts, body)
            = RestoreOutcome(WithoutEmail(users, body.email), accounts, body)

\* C8: a failing restore answers as for an unknown email exactly when the user
\* is soft-deleted and holds a password credential; for an active user it
\* answers BAD_REQUEST / ACCOUNT_NOT_DELETED, and for a soft-deleted user
\* without a password credential BAD_REQUEST / NO_PASSWORD_CREDENTIAL.
C8_DisclosureByStatusAndCredential ==
    \A body \in FailingRestoreBodies :
        LET user == FindOneUserByEmail(users, body.email.v)
            account == FindOneAccount(accounts, user.id, "credential")
            outcome == RestoreOutcome(users, accounts, body)
            unknown == RestoreOutcome(WithoutEmail(users, body.email), accounts, body)
        IN /\ Rejected(unknown, "UNAUTHORIZED", "AUTH_INVALID_CREDENTIALS")
           /\ user # NoUser =>
                /\ user.status # "deleted"
                       => Rejected(outcome, "BAD_REQUEST", "ACCOUNT_NOT_DELETED")
                /\ (user.status = "deleted" /\ ~Truthy(account.password))
                       => Rejected(outcome, "BAD_REQUEST", "NO_PASSWORD_CREDENTIAL")
                /\ (user.status = "deleted" /\ Truthy(account.password))
                       => outcome = unknown

\* A restore for a soft-deleted user without a password credential has been
\* answered with NO_PASSWORD_CREDENTIAL.
C8_Witness ==
    \E r \in Slots :
        /\ req[r].op = "restore" /\ req[r].pc = "done"
        /\ req[r].body.email = Str(BobEmail)
        /\ req[r].body.password = Str(WrongPassword)
        /\ users["u2"].status = "deleted"
        /\ Rejected(req[r].result, "BAD_REQUEST", "NO_PASSWORD_CREDENTIAL")
        /\ req[r].result = RestoreOutcome(users, accounts, req[r].body)

\* C9: when deletes and restores of an email do not overlap, the table never
\* holds more than one non-expired blockedIdentifier row for the email's hash
\* and type "email".
C9_AtMostOneLiveBlock ==
    \A u \in DOMAIN users : Cardinality(LiveBlocks(users[u].email.v)) <= 1

\* A second delete of an already deleted user found the row of the first and
\* refreshed it.
C9_Witness ==
    \E r \in Slots :
        /\ req[r].op = "delete" /\ req[r].pc = "done"
        /\ req[r].existing
        /\ req[r].result = Veto
        /\ Cardinality(LiveBlocks(req[r].user.email.v)) = 1

\* The body carries no password, a password that is no string, or a string of
\* nothing but blanks.
PasswordMissing(body) ==
    \/ body.password.t # "string"
    \/ \A i \in 1..Len(body.password.v) : body.password.v[i] = " "

C10_GuardStep(r) ==
    (req[r].op = "idle" /\ req'[r].op = "delete" /\ PasswordMissing(req'[r].body))
        => /\ req'[r].pc = "done"
           /\ req'[r].result.kind = "error"
           /\ req'[r].result.status = "BAD_REQUEST"
           /\ UNCHANGED <<users, sessions, blocked, secondary>>

C10_InterceptorHasPassword ==
    \A r \in Slots :
        (req[r].op = "delete" /\ (req[r].pc # "done" \/ req[r].result.status # "BAD_REQUEST"))
            => ~PasswordMissing(req[r].body)

\* C10: a /delete-user request whose body has no password, a password that is
\* no string, or a password that is empty once trimmed is rejected with
\* BAD_REQUEST by the guard; the deletion interceptor does not run for it, and
\* the user rows, the sessions and the blockedIdentifier rows stay as they were.
C10_DeleteNeedsPassword ==
    /\ []C10_InterceptorHasPassword
    /\ [][\A r \in Slots : C10_GuardStep(r)]_vars

\* A request with a blank password has been rejected for a signed-in, active
\* user, after another user's delete had written a block.
C10_Witness ==
    \E r \in Slots :
        /\ req[r].op = "delete" /\ req[r].pc = "done"
        /\ req[r].body.password = Str(BlankPassword)
        /\ req[r].result = PasswordRequiredError
        /\ users[req[r].user.id].status = "active"
        /\ sessions[req[r].user.id] > 0
        /\ blocked # <<>>


\* The password of the body is the one stored in the credential account of
\* the user.
DeletePasswordMatches(userId, body) ==
    LET account == FindOneAccount(accounts, userId, "credential") IN
    /\ body.password.t = "string"
    /\ Truthy(account.password)
    /\ account.password.v = HashPassword(body.password.v)

\* C11: a /delete-user request whose password does not match the stored
\* credential of the user is rejected with BAD_REQUEST before the deletion
\* interceptor runs: no such request is ever found inside the interceptor or
\* finished with anything but BAD_REQUEST.
C11_WrongPasswordRejected ==
    \A r \in Slots :
        (req[r].op = "delete" /\ ~DeletePasswordMatches(req[r].user.id, req[r].body))
            => /\ req[r].pc = "done"
               /\ req[r].result.kind = "error"
               /\ req[r].result.status = "BAD_REQUEST"


\* C12: when the deletion interceptor has completed for a user, no session of
\* that user remains.
C12_SessionsRevoked ==
    \A r \in Slots :
        (req[r].op = "delete" /\ req[r].pc = "done" /\ req[r].result = Veto)
            => sessions[req[r].user.id] = 0


\* The body carries the stored email of a soft-deleted user that has no
\* session, and the password of that user's credential account.
SessionlessRestore(body) ==
    \E u \in DOMAIN users :
        LET account == FindOneAccount(accounts, u, "credential") IN
        /\ users[u].status = "deleted"
        /\ sessions[u] = 0
        /\ body.email = users[u].email
        /\ body.password.t = "string"
        /\ account.password = Str(HashPassword(body.password.v))

C13_ChecksPass ==
    \A body \in RestoreBodies :
        SessionlessRestore(body) => RestoreOutcome(users, accounts, body) = NoResult

C13_Step(r) ==
    /\ (/\ req[r].op = "idle" /\ req'[r].op = "restore"
        /\ SessionlessRestore(req'[r].body)
        /\ req'[r].result.status # "TOO_MANY_REQUESTS")
           => req'[r].pc = "account"
    /\ (req[r].op = "restore" /\ req[r].pc = "account" /\ SessionlessRestore(req[r].body))
           => req'[r].pc = "update"
    /\ (req[r].op = "restore" /\ req[r].pc = "update" /\ SessionlessRestore(req[r].body))
           => /\ req'[r].pc = "clear"
              /\ users'[req[r].user.id].status = "active"
    /\ (req[r].op = "restore" /\ req[r].pc = "clear" /\ sessions[req[r].user.id] = 0)
           => /\ req'[r].pc = "done"
              /\ req'[r].result = RestoreSuccess
              /\ sessions' = sessions

RowsFor(tbl, email) ==
    { i \in 1..Len(tbl) :
        tbl[i].identifierHash = hashIdentifier(email) /\ tbl[i].type = "email" }

\* C14 as stated: the sign-up guard rejects with FORBIDDEN/EMAIL_BLOCKED
\* exactly when a row for the hash of the normalized email exists whose
\* expiresAt is null or in the future, and lets the request through otherwise.
C14_RejectsIffRowInFuture ==
    \A body \in SignUpBodies :
        LET email == readEmailFromBody(body)
            decision == SignUpDecision(blocked, body, now)
            live == /\ Truthy(email)
                    /\ \E i \in RowsFor(blocked, email.v) :
                           blocked[i].expiresAt = NullDate \/ blocked[i].expiresAt > now
        IN IF live THEN Rejected(decision, "FORBIDDEN", "EMAIL_BLOCKED")
           ELSE decision = Pass

C14_Decision(tbl, body, date) ==
    LET email == readEmailFromBody(body)
        live == /\ Truthy(email)
                /\ \E i \in RowsFor(tbl, email.v) :
                       tbl[i].expiresAt = NullDate \/ tbl[i].expiresAt >= date
    IN IF live THEN EmailBlockedError ELSE Pass

\* C14: the sign-up guard rejects with FORBIDDEN/EMAIL_BLOCKED exactly when a
\* row for the hash of the normalized email exists whose expiresAt is null or
\* not earlier than the current time, and lets the request through otherwise;
\* a row that expires at this very moment still blocks.
C14_RejectsIffRowNotPast ==
    /\ [](\A body \in SignUpBodies :
              /\ SignUpDecision(blocked, body, now) = C14_Decision(blocked, body, now)
              /\ Rejected(EmailBlockedError, "FORBIDDEN", "EMAIL_BLOCKED"))
    /\ [][\A r \in Slots :
              (req[r].op = "idle" /\ req'[r].op = "signup")
                  => /\ req'[r].result = C14_Decision(blocked, req'[r].body, now)
                     /\ blocked' = blocked]_vars

\* A sign-up has been rejected because of a row that expires at this moment.
C14_Witness ==
    \E r \in Slots, i \in 1..Len(blocked) :
        /\ req[r].op = "signup" /\ req[r].pc = "done"
        /\ Rejected(req[r].result, "FORBIDDEN", "EMAIL_BLOCKED")
        /\ Truthy(readEmailFromBody(req[r].body))
        /\ i \in RowsFor(blocked, readEmailFromBody(req[r].body).v)
        /\ blocked[i].expiresAt = now
        /\ SignUpDecision(blocked, req[r].body, now) = req[r].result


\* The returns of the predicate that refuse: false, or an object with
\* allowed = false.
NegativeDecisions ==
    { d \in RateDecisions : d.t \in {"boolean", "object"} /\ d.allowed = FALSE }

NoPredicate == CHOOSE d \in RateDecisions : d.t = "unset"

C15_Decision ==
    \A body \in RestoreBodies, d \in RateDecisions :
        restoreAccountBodySchema(body) =>
            LET out == RestoreCheckUser(users, body, d) IN
            IF d \in NegativeDecisions
            THEN /\ out.kind = "error"
                 /\ out.status = "TOO_MANY_REQUESTS"
                 /\ out.code = IF d.code # "" THEN d.code ELSE "RESTORE_RATE_LIMITED"
                 /\ out.message = IF d.message # "" THEN d.message
                                  ELSE "Too many restore attempts. Please try again later."
                 /\ out.httpStatus = IF d.status # 0 THEN d.status ELSE 429
            ELSE /\ out.status # "TOO_MANY_REQUESTS"
                 /\ out = RestoreCheckUser(users, body, NoPredicate)

C15_Step(r) ==
    (req[r].op = "idle" /\ req'[r].op = "restore")
        => /\ \E d \in RateDecisions :
                  LET out == RestoreCheckUser(users, req'[r].body, d) IN
                  IF out = NoResult THEN req'[r].pc = "account"
                  ELSE req'[r].pc = "done" /\ req'[r].result = out
           /\ req'[r].result.status = "TOO_MANY_REQUESTS"
                  => /\ req'[r].pc = "done"
                     /\ UNCHANGED <<users, accounts, sessions, blocked, secondary>>

\* C15: when the restoreRateLimit predicate returns false or an object with
\* allowed = false, a restore with a well-formed body fails with
\* TOO_MANY_REQUESTS, with the predicate's code, message and status where
\* given and RESTORE_RATE_LIMITED / 429 otherwise, before any lookup and
\* without changing any state, whatever the credentials; any other return
\* lets the restore go on as if no predicate were configured.
C15_RateLimit ==
    /\ []C15_Decision
    /\ [][\A r \in Slots : C15_Step(r)]_vars

\* A restore with the right email and password of a soft-deleted user has been
\* refused with the default rate-limit error; the user is still deleted.
C15_Witness ==
    \E r \in Slots :
        /\ req[r].op = "restore" /\ req[r].pc = "done"
        /\ req[r].body = [email |-> Str(AliceEmail), password |-> Str(GoodPassword)]
        /\ req[r].result.status = "TOO_MANY_REQUESTS"
        /\ req[r].result.code = "RESTORE_RATE_LIMITED"
        /\ req[r].result.httpStatus = 429
        /\ users["u1"].status = "deleted"
        /\ RestoreOutcome(users, accounts, req[r].body) = NoResult


\* The answer of the restore endpoint to a body under a return of the
\* rate-limit predicate.
RestoreOutcomeUnder(body, d) ==
    LET first == RestoreCheckUser(users, body, d)
        user == FindOneUserByEmail(users, body.email.v)
    IN IF first # NoResult THEN first
       ELSE RestoreCheckAccount(accounts, user.id, body)

\* The six checks of a restore, in the order of the claim: does check i fail?
C16_Fails(i, body, d) ==
    LET wellFormed == /\ body.email.t = "string" /\ IsEmailSyntax(body.email.v)
                      /\ body.password.t = "string" /\ body.password.v # <<>>
        owners == { u \in DOMAIN users : users[u].email = body.email }
        hashes == { a.password : a \in { b \in accounts :
                        b.userId \in owners /\ b.providerId = "credential"
                        /\ b.password.t = "string" /\ b.password.v # <<>> } }
    IN CASE i = 1 -> ~wellFormed
         [] i = 2 -> d \in NegativeDecisions
         [] i = 3 -> owners = {}
         [] i = 4 -> \E u \in owners : users[u].status # "deleted"
         [] i = 5 -> owners # {} /\ hashes = {}
         [] i = 6 -> body.password.t # "string"
                     \/ \E h \in hashes : h.v # HashPassword(body.password.v)

C16_Error(i) ==
    CASE i = 1 -> <<"BAD_REQUEST", "RESTORE_INPUT_REQUIRED">>
      [] i = 2 -> <<"TOO_MANY_REQUESTS", "">>
      [] i = 3 -> <<"UNAUTHORIZED", "AUTH_INVALID_CREDENTIALS">>
      [] i = 4 -> <<"BAD_REQUEST", "ACCOUNT_NOT_DELETED">>
      [] i = 5 -> <<"BAD_REQUEST", "NO_PASSWORD_CREDENTIAL">>
      [] i = 6 -> <<"UNAUTHORIZED", "AUTH_INVALID_CREDENTIALS">>

\* Does the result report the first failing check, or none when all pass?
C16_Reports(result, body, d) ==
    LET failing == { i \in 1..6 : C16_Fails(i, body, d) } IN
    IF failing = {} THEN result = NoResult
    ELSE LET first == CHOOSE i \in failing : \A j \in failing : i <= j IN
         /\ result.kind = "error"
         /\ result.status = C16_Error(first)[1]
         /\ first # 2 => result.code = C16_Error(first)[2]

C16_Order ==
    \A body \in RestoreBodies, d \in RateDecisions :
        C16_Reports(RestoreOutcomeUnder(body, d), body, d)

C16_Step(r) ==
    /\ (req[r].op = "idle" /\ req'[r].op = "restore")
           => \E d \in RateDecisions :
                  /\ req'[r].pc = "done" => C16_Reports(req'[r].result, req'[r].body, d)
                  /\ req'[r].pc # "done"
                         => \A i \in 1..4 : ~C16_Fails(i, req'[r].body, d)
    /\ (req[r].op = "restore" /\ req[r].pc = "account")
           => IF req'[r].pc = "done"
              THEN C16_Reports(req'[r].result, req[r].body, NoPredicate)
              ELSE \A i \in 1..6 : ~C16_Fails(i, req[r].body, NoPredicate)

C16_Reactivates ==
    \A u \in DOMAIN users :
        (users[u].status = "deleted" /\ users'[u].status = "active")
            => \E r \in Slots :
                   /\ req[r].op = "restore" /\ req[r].pc = "update"
                   /\ req[r].user.id = u
                   /\ \A i \in 1..6 : ~C16_Fails(i, req[r].body, NoPredicate)

\* C16: a restore reports the first failing check in the order malformed body,
\* rate limit, user not found, user not deleted, no password credential,
\* password mismatch, and a user is reactivated only by a restore that passed
\* all six.
C16_CheckOrder ==
    /\ []C16_Order
    /\ [][C16_Reactivates /\ \A r \in Slots : req'[r] # req[r] => C16_Step(r)]_vars

\* A restore for an active user with a wrong password has been answered with
\* the status error, which comes before the password check.
C16_Witness ==
    \E r \in Slots :
        /\ req[r].op = "restore" /\ req[r].pc = "done"
        /\ req[r].body = [email |-> Str(AliceEmail), password |-> Str(WrongPassword)]
        /\ users["u1"].status = "active"
        /\ C16_Fails(4, req[r].body, NoPredicate)
        /\ C16_Fails(6, req[r].body, NoPredicate)
        /\ Rejected(req[r].result, "BAD_REQUEST", "ACCOUNT_NOT_DELETED")


\* C17: once a restore has passed its checks and reactivated the user, it
\* answers with its success payload and the user is active with deletedAt
\* null, whether or not the removal of the blockedIdentifier row fails.
C17_CleanupErrorSwallowed ==
    [][\A r \in Slots :
          (req[r].op = "restore" /\ req[r].pc = "clear" /\ req'[r] # req[r])
              => /\ req'[r].pc = "done"
                 /\ req'[r].result = RestoreSuccess
                 /\ users'[req[r].user.id].status = "active"
                 /\ users'[req[r].user.id].deletedAt = NullDate]_vars


C18_Step(r) ==
    (req[r].op = "idle" /\ req'[r].op = "account-delete")
        => LET account == req'[r].account
               credentialOnDeleteUser ==
                   req'[r].path = "/delete-user" /\ account.providerId = "credential"
           IN /\ account \in accounts
              /\ req'[r].result = Veto <=> credentialOnDeleteUser
              /\ req'[r].result # Veto => req'[r].result = Pass
              /\ credentialOnDeleteUser => accounts' = accounts
              /\ ~credentialOnDeleteUser => accounts' = accounts \ {account}

\* C18: the account pre-delete hook returns false exactly when the path is
\* /delete-user and the account's providerId is "credential"; the host then
\* keeps the row with its password hash, and in every other case the hook
\* does not veto and the row is removed.
C18_AccountVeto ==
    [][\A r \in Slots : C18_Step(r)]_vars

\* The credential row of a soft-deleted user has been kept on /delete-user
\* while the row of another provider has been removed on the same path.
C18_Witness ==
    \E r \in Slots :
        /\ req[r].op = "account-delete" /\ req[r].pc = "done"
        /\ req[r].path = "/delete-user"
        /\ req[r].account.providerId = "credential"
        /\ req[r].result = Veto
        /\ req[r].account \in accounts
        /\ Truthy(req[r].account.password)
        /\ users[req[r].account.userId].status = "deleted"
        /\ \A a \in accounts : a.providerId = "credential"


\* The slot has moved in this step.
Moved(r) == req'[r] # req[r]

\* The status of user u changes in this step only at the update of a deletion
\* interceptor run for u, or at the update of a restore for u that has passed
\* the schema and the password check.
C19_StatusStep(u) ==
    users'[u].status # users[u].status
        => \/ /\ users'[u].status = "deleted"
              /\ \E r \in Slots :
                     /\ req[r].op = "delete" /\ req[r].pc = "update"
                     /\ req[r].user.id = u
                     /\ Moved(r)
           \/ /\ users'[u].status = "active"
              /\ \E r \in Slots :
                     /\ req[r].op = "restore" /\ req[r].pc = "update"
                     /\ req[r].user.id = u
                     /\ Moved(r)
                     /\ restoreAccountBodySchema(req[r].body)
                     /\ req[r].body.email.v = users[u].email.v
                     /\ RestoreCheckAccount(accounts, u, req[r].body) = NoResult

\* A step of a sign-in or of a sign-up, accepted or rejected, leaves the user
\* table as it was.
C19_GuardStep(r) ==
    (Moved(r) /\ req'[r].op \in {"signin", "signup"}) => users' = users

\* C19: a user's status is always "active" or "deleted"; it becomes "deleted"
\* only by a deletion interceptor run and "active" only by a restore that
\* passed every check; the sign-in and sign-up guards never change it, and
\* every user row stays in the table under its id and email.
C19_StatusLifecycle ==
    /\ [](\A u \in UserIds :
              /\ u \in DOMAIN users
              /\ users[u].status \in {"active", "deleted"})
    /\ [][/\ \A u \in UserIds : C19_StatusStep(u)
          /\ \A r \in Slots : C19_GuardStep(r)
          /\ \A u \in UserIds : /\ users'[u].id = users[u].id
                                /\ users'[u].email = users[u].email]_vars

\* A user has been deleted and restored again while a guard has rejected a
\* request: both transitions and a rejecting guard have happened.
C19_Witness ==
    \E a, b \in Slots :
        /\ a # b
        /\ req[a].op = "restore" /\ req[a].pc \in {"clear", "done"}
        /\ req[a].user # NoUser
        /\ req[a].result.kind # "error"
        /\ users[req[a].user.id].status = "active"
        /\ req[b].op \in {"signin", "signup"} /\ req[b].pc = "done"
        /\ req[b].result.kind = "error"


\* C20: whenever the sign-up guard of src/index.ts rejects a sign-up, the
\* blockedIdentifier table holds a row for the hash of that email that has not
\* expired: the secondary storage alone never causes a rejection.
C20_RejectionHasLiveRow ==
    [][\A r \in Slots :
          (/\ req[r].op = "idle" /\ req'[r].op = "signup"
           /\ req'[r].result = IdxEmailBlockedError)
              => \E i \in BlocksOf(blocked, req'[r].body.email.v) :
                     ~IsExpired(blocked[i], now)]_vars


\* Nothing but the request slots changes in this step.
StoreUnchanged ==
    UNCHANGED <<now, blockReRegistration, secondaryStorage, secondary,
                users, accounts, sessions, blocked>>

C21_Step(r) ==
    LET id == req'[r].user.id IN
    /\ (req[r].op = "idle" /\ req'[r].op = "restore" /\ req'[r].user = NoUser)
           => /\ req'[r].pc = "done"
              /\ Rejected(req'[r].result, "UNAUTHORIZED", "")
              /\ StoreUnchanged
    /\ (req[r].op = "idle" /\ req'[r].op = "restore" /\ req'[r].user # NoUser)
           => /\ sessions[id] > 0
              /\ req'[r].pc = "clear"
              /\ users'[id].status = "active"
              /\ users'[id].deletedAt = NullDate
              /\ \A u \in UserIds \ {id} : users'[u] = users[u]
    /\ (req[r].op = "restore" /\ req[r].pc = "clear" /\ Truthy(req[r].user.email))
           => BlocksOf(blocked', req[r].user.email.v) = {}
    /\ (req[r].op = "restore" /\ req[r].pc # "done" /\ req'[r].pc = "done")
           => /\ req'[r].result = RestoreSuccess
              /\ users'[id].status = "active"
              /\ users'[id].deletedAt = NullDate
              /\ Truthy(req[r].user.email)
                     => BlocksOf(blocked', req[r].user.email.v) = {}

C22_Step(r) ==
    LET id == req[r].user.id IN
    /\ (req[r].op = "idle" /\ req'[r].op = "delete" /\ req'[r].pc # "done")
           => /\ req'[r].pc = "update"
              /\ users' = users
              /\ blocked' = blocked
    /\ (req[r].op = "delete" /\ req[r].pc = "update" /\ Moved(r))
           => /\ req'[r].pc \in {"find", "done"}
              /\ users'[id].status = "deleted"
              /\ users'[id].deletedAt = now
              /\ sessions' = sessions
              /\ blocked' = blocked
    /\ (req[r].op = "delete" /\ req[r].pc = "find" /\ Moved(r))
           => /\ req'[r].pc = "write"
              /\ StoreUnchanged
    /\ (req[r].op = "delete" /\ req[r].pc = "write" /\ Moved(r))
           => /\ req'[r].pc = "done"
              /\ users' = users
              /\ sessions' = sessions
    /\ (Moved(r) /\ req'[r].op = "delete" /\ req'[r].pc = "find")
           => req[r].op = "delete" /\ req[r].pc = "update"
    /\ (Moved(r) /\ req'[r].op = "delete" /\ req'[r].pc = "write")
           => req[r].op = "delete" /\ req[r].pc = "find"
    /\ (Moved(r) /\ req'[r].op = "delete" /\ blocked' # blocked)
           => req[r].op = "delete" /\ req[r].pc = "write"

\* C22: one run of the deletion interceptor revokes the sessions in its first
\* step without touching user or block, then issues the user update without
\* touching sessions or block, and only then looks up and writes the block:
\* no step of the run writes the block before its user update, and none
\* writes the user before its revocation.
C22_EffectOrder ==
    [][\A r \in Slots : C22_Step(r)]_vars

\* The run is between its user update and its block write: the sessions are
\* revoked, the user is marked deleted and no row for the email exists yet.
C22_Witness ==
    \E r \in Slots :
        /\ req[r].op = "delete" /\ req[r].pc = "write"
        /\ ~req[r].existing
        /\ users[req[r].user.id].status = "deleted"
        /\ sessions[req[r].user.id] = 0
        /\ BlocksOf(blocked, req[r].user.email.v) = {}


\* C23: the step of the sign-in guard and the step of the sign-up guard,
\* whether they pass, reject or return early for a body without email, leave
\* the user rows, the sessions and the blockedIdentifier rows as they were;
\* an expired row the sign-up guard has read is still in the table.
C23_GuardsReadOnly ==
    [][\A r \in Slots :
          (req[r].op = "idle" /\ req'[r].op \in {"signin", "signup"})
              => /\ users' = users
                 /\ sessions' = sessions
                 /\ blocked' = blocked
                 /\ secondary' = secondary]_vars

\* The sign-up guard has let a sign-up through whose email has an expired row,
\* and the row is still there.
C23_Witness ==
    \E r \in Slots :
        /\ req[r].op = "signup" /\ req[r].pc = "done"
        /\ req[r].result = Pass
        /\ Truthy(readEmailFromBody(req[r].body))
        /\ \E i \in BlocksOf(blocked, readEmailFromBody(req[r].body).v) :
               IsExpired(blocked[i], now)


\* Both slots hold a finished run of the deletion interceptor for user u, each
\* with a context that carries an adapter.
BothDeleted(u) ==
    \A r \in Slots :
        /\ req[r].op = "delete" /\ req[r].pc = "done"
        /\ req[r].user.id = u
        /\ req[r].result.code \notin {"SD_CONTEXT_INVALID", "SD_ADAPTER_CTX_MISSING"}

C24_NoError(u) ==
    BothDeleted(u) => \A r \in Slots : req[r].result = Veto

C24_UserDeleted(u) ==
    BothDeleted(u) => users[u].status = "deleted" /\ users[u].deletedAt # NullDate

C24_OneRow(u) ==
    (BothDeleted(u) /\ blockReRegistration /\ Truthy(users[u].email))
        => Cardinality(BlocksOf(blocked, users[u].email.v)) = 1

\* C24: when two runs of the deletion interceptor for the same user have
\* interleaved and both have finished, neither has failed, the user is
\* deleted with deletedAt set, and exactly one blockedIdentifier row exists
\* for the hash of the user's email.
C24_ConcurrentDeletes ==
    \A u \in UserIds : C24_NoError(u) /\ C24_UserDeleted(u) /\ C24_OneRow(u)


\* The outcomes of a delete and a restore of user u run one after the other
\* (deleted and blocked, or active and not blocked), and the documented race
\* outcome: active with a block that ends within the retention window.
C25_Outcome(u) ==
    LET rows == BlocksOf(blocked, users[u].email.v) IN
    \/ users[u].status = "deleted" /\ rows # {}
    \/ users[u].status = "active" /\ rows = {}
    \/ /\ users[u].status = "active"
       /\ rows # {}
       /\ \A i \in rows : /\ blocked[i].expiresAt # NullDate
                          /\ blocked[i].expiresAt <= now + RetentionDays

\* C25: when a run of the deletion interceptor and a successful restore for
\* the same user have interleaved and both have finished, the state is one a
\* serial execution produces, or the user is active with a blockedIdentifier
\* row whose expiresAt is set and at most retentionDays ahead.
C25_DeleteRestoreRace ==
    \A a, b \in Slots :
        (/\ req[a].op = "delete" /\ req[a].pc = "done" /\ req[a].result = Veto
         /\ req[b].op = "restore" /\ req[b].pc = "done"
         /\ req[b].result = RestoreSuccess
         /\ req[b].user.id = req[a].user.id
         /\ blockReRegistration)
            => C25_Outcome(req[a].user.id)


\* C27: when adapter.update on user rejects after the sessions were revoked,
\* the run ends with the adapter's error and not with the veto value, and the
\* failing step compensates nothing and writes nothing: sessions, users and
\* blockedIdentifier rows are as the revocation left them.  The veto value is
\* only ever returned by a run whose user update took effect.
C27_Step(r) ==
    /\ (/\ req[r].op = "delete" /\ req[r].pc = "update"
        /\ req'[r].result.kind = "error")
           => /\ req'[r].pc = "done"
              /\ req'[r].result = AdapterFailure
              /\ users' = users
              /\ sessions' = sessions
              /\ blocked' = blocked
    /\ (req[r].op = "delete" /\ Moved(r) /\ req'[r].result = Veto)
           => /\ users'[req[r].user.id].status = "deleted"
              /\ users'[req[r].user.id].deletedAt # NullDate

C27_UpdateFailurePropagates ==
    [][\A r \in Slots : C27_Step(r)]_vars

\* A run for an active user with a session has revoked it and then failed at
\* the user update: the user is still active and no row was written.
C27_Witness ==
    \E r \in Slots :
        /\ req[r].op = "delete" /\ req[r].pc = "done"
        /\ req[r].result = AdapterFailure
        /\ users[req[r].user.id].status = "active"
        /\ users[req[r].user.id].deletedAt = NullDate
        /\ sessions[req[r].user.id] = 0
        /\ BlocksOf(blocked, req[r].user.email.v) = {}


\* The state a run of the deletion interceptor for the user of slot r leaves
\* when it has returned the veto value.
C26_AfterRun(r) ==
    LET id == req[r].user.id
        rows == BlocksOf(blocked, req[r].user.email.v)
    IN /\ users[id].status = "deleted"
       /\ users[id].deletedAt # NullDate
       /\ (blockReRegistration /\ Truthy(req[r].user.email))
              => /\ Cardinality(rows) = 1
                 /\ \A i \in rows : /\ blocked[i].expiresAt # NullDate
                                    /\ blocked[i].expiresAt <= now + RetentionDays

\* The revocation of a run never fails, whatever the sessions were: it leaves
\* no session for the user, or the table as it was when the context has no
\* way to delete sessions, and the run goes on to the user update.
C26_RevokeStep(r) ==
    (req[r].op = "idle" /\ req'[r].op = "delete" /\ req'[r].result.kind # "error")
        => /\ req'[r].pc = "update"
           /\ sessions'[req'[r].user.id] = 0 \/ sessions' = sessions
           /\ \A u \in UserIds \ {req'[r].user.id} : sessions'[u] = sessions[u]

ContextUnusable(ctx) == ~ctx.isObject \/ ~ctx.hasAdapter

\* C28: a run of the deletion interceptor whose context is not an object or
\* carries no adapter ends at once with INTERNAL_SERVER_ERROR and has no
\* effect: no session is revoked and no user or blockedIdentifier row is
\* written; a run with a usable context does not fail there.
C28_ContextMissing ==
    [][\A r \in Slots, u \in UserIds, ctx \in Contexts :
          UserDeleteBefore_Revoke(r, u, ctx, TRUE)
              => IF ContextUnusable(ctx)
                 THEN /\ req'[r].pc = "done"
                      /\ req'[r].result.kind = "error"
                      /\ req'[r].result.status = "INTERNAL_SERVER_ERROR"
                      /\ req'[r].result.code =
                             IF ctx.isObject THEN "SD_ADAPTER_CTX_MISSING"
                             ELSE "SD_CONTEXT_INVALID"
                      /\ StoreUnchanged
                 ELSE req'[r].pc = "update" /\ req'[r].result = NoResult]_vars

\* A run for an active user with a session has failed for want of an adapter,
\* and the session and the user are untouched.
C28_Witness ==
    \E r \in Slots :
        /\ req[r].op = "delete" /\ req[r].pc = "done"
        /\ req[r].result.code = "SD_ADAPTER_CTX_MISSING"
        /\ sessions[req[r].user.id] > 0
        /\ users[req[r].user.id].status = "active"
        /\ BlocksOf(blocked, req[r].user.email.v) = {}


\* The write of a run at time now extends the rows in hits, when there are
\* any, to now + retentionDays and adds none; otherwise it appends one row for
\* the hash with that expiry.  All other rows stay as they are.
UpsertEffect(r, hits) ==
    LET hash == hashIdentifier(req[r].user.email.v) IN
    IF hits # {}
    THEN /\ Len(blocked') = Len(blocked)
         /\ \A i \in 1..Len(blocked) :
                blocked'[i] = IF i \in hits
                              THEN [blocked[i] EXCEPT !.expiresAt = now + RetentionDays]
                              ELSE blocked[i]
    ELSE blocked' = Append(blocked, [identifierHash |-> hash, type |-> "email",
                                     expiresAt |-> now + RetentionDays])

WriteStep(r) == req[r].op = "delete" /\ req[r].pc = "write" /\ Moved(r)

NoBlockFor(r) == ~blockReRegistration \/ ~Truthy(req[r].user.email)

C30_Step(r) ==
    /\ \A u \in UserIds, ctx \in Contexts :
           (UserDeleteBefore_Revoke(r, u, ctx, TRUE) /\ ~ContextUnusable(ctx))
               => /\ (ctx.hasDeleteSessions \/ ctx.hasDelete) => sessions'[u] = 0
                  /\ blocked' = blocked
    /\ (req[r].op = "delete" /\ req[r].pc = "update" /\ NoBlockFor(r))
           => /\ req'[r].pc = "done"
              /\ req'[r].result = Veto
              /\ users'[req[r].user.id].status = "deleted"
              /\ users'[req[r].user.id].deletedAt = now
              /\ blocked' = blocked
    /\ (req[r].op = "delete" /\ NoBlockFor(r)) => blocked' = blocked

AliceVariants == {AliceEmail, AliceUpper, AlicePadded, <<"A", "@", "x.io", " ">>}

VariantBody(e) == [email |-> Str(e), password |-> Str(GoodPassword)]

\* The guards decide alike for every variant, and the block written for the
\* stored email is the one the sign-up guard finds for any variant.
C31_GuardsNormalize ==
    \A e \in AliceVariants :
        /\ SignInDecision(users, VariantBody(e))
               = SignInDecision(users, VariantBody(AliceEmail))
        /\ SignUpDecision(blocked, VariantBody(e), now)
               = SignUpDecision(blocked, VariantBody(AliceEmail), now)
        /\ hashIdentifier(e) = hashIdentifier(users["u1"].email.v)

\* A restore with a letter-case variant of the email of the soft-deleted user
\* and the correct password passes the user lookup and the status check.
C31_RestoreStep(r) ==
    (/\ req[r].op = "idle" /\ req'[r].op = "restore"
     /\ ToLowerCase(req'[r].body.email.v) = users["u1"].email.v
     /\ req'[r].body.password = Str(GoodPassword)
     /\ restoreAccountBodySchema(req'[r].body)
     /\ users["u1"].status = "deleted"
     /\ req'[r].result.status # "TOO_MANY_REQUESTS")
        => req'[r].pc = "account" /\ req'[r].result.kind # "error"

\* C31: emails are compared and hashed lower-cased and trimmed at all four
\* interception points: the guards decide alike for every variant of a stored
\* email, the interceptor's block is found for any variant, and a restore with
\* a letter-case variant and the correct password goes through.
C31_NormalizedEverywhere ==
    /\ []C31_GuardsNormalize
    /\ [][\A r \in Slots : C31_RestoreStep(r)]_vars


\* C32: the ACCOUNT_DELETED error of the sign-in guard carries the deletedAt
\* stored in the user's row and a scheduled deletion date retentionDays after
\* it; retentionDays is the configured number, and 30 when none is configured.
C32_DeletionMetadata ==
    /\ \A u \in DOMAIN users, body \in SignInBodies :
           (readEmailFromBody(body) = users[u].email /\ users[u].status = "deleted")
               => LET decision == SignInDecision(users, body) IN
                  /\ decision.code = "ACCOUNT_DELETED"
                  /\ decision.deletedAt = users[u].deletedAt
                  /\ decision.scheduledDeletionDate = users[u].deletedAt + RetentionDays
    /\ \A r \in Slots :
           (req[r].op = "signin" /\ req[r].result.code = "ACCOUNT_DELETED")
               => req[r].result.scheduledDeletionDate
                      = req[r].result.deletedAt + RetentionDays
    /\ RetentionDays = retentionDaysOf(RetentionDays)
    /\ retentionDaysOf(NoOption) = 30

\* A sign-in some time after the deletion has been rejected with the stored
\* deletion date, not the date of the request.
C32_Witness ==
    \E r \in Slots, u \in DOMAIN users :
        /\ req[r].op = "signin" /\ req[r].pc = "done"
        /\ req[r].result.code = "ACCOUNT_DELETED"
        /\ readEmailFromBody(req[r].body) = users[u].email
        /\ users[u].status = "deleted"
        /\ req[r].result.deletedAt = users[u].deletedAt
        /\ req[r].result.deletedAt < now
        /\ req[r].result.scheduledDeletionDate = users[u].deletedAt + RetentionDays


\* C33: in src/index.ts a delete for an email that already has a
\* blockedIdentifier row refreshes that row and adds none: whatever the
\* number of deletes, each user's email has at most one row, and exactly one
\* once a delete with blocking enabled has returned.
C33_IdxOneRowPerEmail ==
    /\ \A u \in DOMAIN users :
           Truthy(users[u].email)
               => Cardinality(BlocksOf(blocked, users[u].email.v)) <= 1
    /\ \A r \in Slots :
           (/\ req[r].op = "delete" /\ req[r].pc = "done" /\ req[r].result = Veto
            /\ IdxBlocks(req[r].user))
               => Cardinality(BlocksOf(blocked, req[r].user.email.v)) = 1


\* The errors restoreAccount throws itself.
RestoreErrorOf(result) ==
    \/ Rejected(result, "BAD_REQUEST", "RESTORE_INPUT_REQUIRED")
    \/ result.kind = "error" /\ result.status = "TOO_MANY_REQUESTS"
    \/ Rejected(result, "UNAUTHORIZED", "AUTH_INVALID_CREDENTIALS")
    \/ Rejected(result, "BAD_REQUEST", "ACCOUNT_NOT_DELETED")
    \/ Rejected(result, "BAD_REQUEST", "NO_PASSWORD_CREDENTIAL")

C34_Step(r) ==
    /\ (Moved(r) /\ req'[r].op = "restore" /\ req'[r].result.kind = "error")
           => /\ RestoreErrorOf(req'[r].result)
              /\ req[r].pc \in {"idle", "done", "account"}
              /\ StoreUnchanged
    /\ (Moved(r) /\ req'[r].op = "restore" /\ req'[r].pc \in {"account", "update"})
           => StoreUnchanged
    /\ (Moved(r) /\ req[r].op = "restore" /\ ~StoreUnchanged)
           => /\ req[r].pc \in {"update", "clear"}
              /\ req'[r].result.kind # "error"

\* C34: a restore that ends in one of its own errors has written nothing. The
\* error is thrown by the step that starts the request or by the credential
\* step, both of which leave every table as it was, and so does every step
\* that leads up to the update; the tables change only in the update and the
\* clean-up that follows it, neither of which ends in an error.
C34_ErrorWritesNothing == [][\A r \in Slots : C34_Step(r)]_vars

C34_Witness ==
    \E r \in Slots :
        /\ req[r].op = "restore" /\ req[r].pc = "done"
        /\ req[r].body = [email |-> Str(AliceEmail), password |-> Str(WrongPassword)]
        /\ Rejected(req[r].result, "UNAUTHORIZED", "AUTH_INVALID_CREDENTIALS")
        /\ users["u1"].status = "deleted"
        /\ users["u1"].deletedAt # NullDate
        /\ BlocksOf(blocked, AliceEmail) # {}
        /\ req[r].user.id = "u1"


\* C35: with no request in flight, a user whose status is "deleted" has no
\* session, whatever the interleaving of sign-ins and deletes for that user.
C35_DeletedHasNoSession ==
    NoneInFlight
        => \A u \in DOMAIN users :
               users[u].status = "deleted" => sessions[u] = 0


\* C36: with blocking enabled and no request in flight, a user whose status is
\* "deleted" and whose deletedAt is less than retentionDays in the past has a
\* blockedIdentifier row for their email that has not expired, whatever the
\* interleaving of deletes and restores of that user.
C36_DeletedIsBlocked ==
    (NoneInFlight /\ blockReRegistration)
        => \A u \in DOMAIN users :
               (/\ users[u].status = "deleted"
                /\ Truthy(users[u].email)
                /\ users[u].deletedAt # NullDate
                /\ now < users[u].deletedAt + RetentionDays)
                   => \E i \in BlocksOf(blocked, users[u].email.v) :
                          ~IsExpired(blocked[i], now)


IsGoodRestore(q) == q.op = "restore" /\ q.body = GoodRestore

RestoreSucceeded(q) == q.result.kind = "json" /\ q.result.message = RestoreSuccess.message

C38_Step(r) ==
    (Moved(r) /\ req'[r].op = "delete")
        => /\ \A u \in DOMAIN users :
                  users[u].deletedAt # NullDate
                      => /\ users'[u].deletedAt # NullDate
                         /\ users'[u].deletedAt >= users[u].deletedAt
           /\ Len(blocked') >= Len(blocked)
           /\ \A i \in 1..Len(blocked) :
                  blocked[i].expiresAt # NullDate
                      => /\ blocked'[i].expiresAt # NullDate
                         /\ blocked'[i].expiresAt >= blocked[i].expiresAt
           /\ req[r].pc = "update"
                  => /\ users'[req[r].user.id].status = "deleted"
                     /\ users'[req[r].user.id].deletedAt = now
           /\ req[r].pc = "write"
                  => /\ BlocksOf(blocked', req[r].user.email.v) # {}
                     /\ \A i \in BlocksOf(blocked', req[r].user.email.v) :
                            blocked'[i].expiresAt = now + RetentionDays

C38_BlockOutlivesWindow ==
    NoneInFlight
        => \A u \in DOMAIN users :
               (users[u].status = "deleted" /\ Truthy(users[u].email))
                   => \A i \in BlocksOf(blocked, users[u].email.v) :
                          \/ blocked[i].expiresAt = NullDate
                          \/ blocked[i].expiresAt >= users[u].deletedAt + RetentionDays

HoldsCredential(u) ==
    \E account \in accounts :
        /\ account.userId = u
        /\ account.providerId = "credential"
        /\ account.password = Str(HashPassword(GoodPassword))

\* The restore request that carries the user's stored email and password.
RestoreBodyOf(u) == [email |-> users[u].email, password |-> Str(GoodPassword)]

Restorable(u) ==
    \A decision \in RateDecisions :
        ~RateLimitBlocked(decision)
            => /\ RestoreCheckUser(users, RestoreBodyOf(u), decision) = NoResult
               /\ RestoreCheckAccount(accounts, u, RestoreBodyOf(u)) = NoResult

C39_Restorable ==
    \A u \in DOMAIN users :
        (users[u].status = "deleted" /\ Truthy(users[u].email) /\ HoldsCredential(u))
            => Restorable(u)

C39_Step(r) ==
    \* no request on /delete-user, and no hook or endpoint of the plugin,
    \* removes a credential row
    /\ (Moved(r) /\ accounts' # accounts)
           => /\ req'[r].op = "account-delete"
              /\ accounts' = accounts \ {req'[r].account}
              /\ req'[r].account.providerId = "credential"
                     => req'[r].path # "/delete-user"
    /\ (Moved(r) /\ req'[r].op = "account-delete"
                 /\ req'[r].path = "/delete-user"
                 /\ req'[r].account.providerId = "credential")
           => req'[r].account \in accounts'
    \* a restore with the stored email and the password, started on a deleted
    \* user who holds the credential, runs through to the success payload
    /\ \A u \in DOMAIN users :
           (/\ Moved(r) /\ req[r].pc = "idle"
            /\ req'[r].op = "restore" /\ req'[r].body = RestoreBodyOf(u)
            /\ users[u].status = "deleted" /\ HoldsCredential(u)
            /\ req'[r].result.status # "TOO_MANY_REQUESTS")
               => req'[r].pc = "account" /\ req'[r].user.id = u
    /\ (/\ Moved(r) /\ req[r].op = "restore" /\ req[r].pc = "account"
         /\ req[r].body = RestoreBodyOf(req[r].user.id)
         /\ HoldsCredential(req[r].user.id))
           => req'[r].pc = "update"
    /\ (Moved(r) /\ req[r].op = "restore" /\ req[r].pc = "update")
           => /\ req'[r].pc = "clear"
              /\ users'[req[r].user.id].status = "active"
    /\ (Moved(r) /\ req[r].op = "restore" /\ req[r].pc = "clear")
           => /\ req'[r].pc = "done"
              /\ req'[r].result.kind = "json"
              /\ req'[r].result.message = "Account restored successfully."

\* C39: soft deletion is reversible. In every reachable state a deleted user
\* who holds the password credential passes every check of a restore that
\* carries the stored email and the original password, unless the rate limit
\* refuses it; such a restore runs through to the success payload and leaves
\* the user active; and no hook or endpoint of the plugin, nor the host's
\* account deletion on /delete-user, removes a credential row.
C39_Reversible == []C39_Restorable /\ [][\A r \in Slots : C39_Step(r)]_vars

C39_Witness ==
    \E r \in Slots :
        /\ req[r].op = "restore" /\ req[r].pc = "done"
        /\ req[r].body = RestoreBodyOf("u1")
        /\ req[r].result.kind = "json"
        /\ users["u1"].status = "active"
        /\ HoldsCredential("u1")
        /\ now > 0
        /\ \A account \in accounts : account.userId = "u1"

====
